---- MODULE Spec2Model ----
(***************************************************************************)
(* A model of ajournal: the local storage layer (raw-data snapshots,       *)
(* sync-state, journal paths, listing, migration), the connectors' sync    *)
(* loops, the Slack channel filter, the calendar event categorizer and     *)
(* the summarization fallback.                                             *)
(*                                                                         *)
(* Time.  An instant (a JS Date) is an integer number of hours since the   *)
(* epoch, UTC.  A 'yyyy-MM-dd' string is the number of its calendar day    *)
(* (days since the epoch).  The local time zone is tz hours east of UTC.   *)
(***************************************************************************)
EXTENDS Integers, Sequences, FiniteSets, TLC

VARIABLES
    tz,             \* local time zone of the process, hours east of UTC
    clock,          \* the wall clock read by `new Date()`
    rawFiles,       \* <rawDataDir>/<integration>/<day>.json : <<integration, day>> -> document
    syncStateFile,  \* sync-state.json: Missing, Corrupt or integration -> record
    log,            \* the most recent calls of the storage API with their results
    sync,           \* the connector sync in progress
    journalFiles,   \* the files under journal.outputDir: relative path -> content
    input,          \* the argument of a pure function under test
    output          \* its result

vars == <<tz, clock, rawFiles, syncStateFile, log, sync, journalFiles, input, output>>

\* What the raw-data and sync-state operations leave alone.
journalVars == <<journalFiles, input, output>>
\* What the journal operations leave alone.
rawVars == <<clock, rawFiles, syncStateFile, sync, input, output>>

----------------------------------------------------------------------------
(* Bounds *)

MaxDay == 2         \* calendar days 1..MaxDay carry activity
MaxCalls == 3       \* direct calls of the storage API in one behaviour

TZOffsets == {0 - 5, 0, 5}
HoursOfDay == {3, 21}

Days == 1..MaxDay
DayKeys == 0..(MaxDay + 1)
Instants == {24 * d + h : d \in Days, h \in HoursOfDay}

----------------------------------------------------------------------------
(* Dates *)

\* A date argument: a 'yyyy-MM-dd' string or a Date object.
StrDate(d) == [kind |-> "str", day |-> d]
ObjDate(t) == [kind |-> "date", t |-> t]

\* new Date(x): a date-only string is parsed as UTC midnight of that day;
\* a Date object is copied.
newDate(x) == IF x.kind = "str" THEN 24 * x.day ELSE x.t

\* format(t, 'yyyy-MM-dd'): the calendar day of t in the local time zone.
format(t) == (t + tz) \div 24

----------------------------------------------------------------------------
(* Calendar: the local date fields of an instant and the date-fns week *)

\* Day number (days since 1970-01-01) of the civil date y-m-d: the days of
\* the 400-year eras before it, of the years of its era, and of its year
\* counted from March 1.
DayOfEra(yoe, doy) == yoe * 365 + yoe \div 4 - yoe \div 100 + doy
DayOfMarchYear(m, d) == (153 * (IF m > 2 THEN m - 3 ELSE m + 9) + 2) \div 5 + d - 1
DaysFromMarchYear(yy, doy) ==
    (yy \div 400) * 146097 + DayOfEra(yy % 400, doy) - 719468
DaysFromCivil(y, m, d) ==
    DaysFromMarchYear(IF m <= 2 THEN y - 1 ELSE y, DayOfMarchYear(m, d))

\* The civil date of a day number, by the inverse steps.
CivilDate(y, m, d) ==
    [year |-> IF m <= 2 THEN y + 1 ELSE y, month |-> m, day |-> d]
CivilFromMonth(y, doy, mp) ==
    CivilDate(y, IF mp < 10 THEN mp + 3 ELSE mp - 9, doy - (153 * mp + 2) \div 5 + 1)
CivilFromDayOfYear(y, doy) == CivilFromMonth(y, doy, (5 * doy + 2) \div 153)
CivilFromYearOfEra(era, doe, yoe) ==
    CivilFromDayOfYear(yoe + era * 400, doe - (365 * yoe + yoe \div 4 - yoe \div 100))
CivilFromDayOfEra(era, doe) ==
    CivilFromYearOfEra(era, doe,
        (doe - doe \div 1460 + doe \div 36524 - doe \div 146096) \div 365)
CivilFromDays(z) ==
    CivilFromDayOfEra((z + 719468) \div 146097, (z + 719468) % 146097)

\* getDay of a day number: 0 = Sunday ... 6 = Saturday (1970-01-01 was a Thursday).
getDay(z) == (z + 4) % 7

\* getYear(date): the calendar year of the local day.
getYear(z) == CivilFromDays(z).year

\* startOfWeek(date, {weekStartsOn: 1}): the Monday on or before the local day.
startOfWeek(z) ==
    LET day == getDay(z)
        diff == (IF day < 1 THEN 7 ELSE 0) + day - 1
    IN  z - diff

\* getWeekYear(date, {weekStartsOn: 1}) with firstWeekContainsDate = 1.
getWeekYear(z) ==
    LET year == getYear(z)
        startOfNextYear == startOfWeek(DaysFromCivil(year + 1, 1, 1))
        startOfThisYear == startOfWeek(DaysFromCivil(year, 1, 1))
    IN  IF z >= startOfNextYear THEN year + 1
        ELSE IF z >= startOfThisYear THEN year
        ELSE year - 1

\* startOfWeekYear(date, {weekStartsOn: 1})
startOfWeekYear(z) == startOfWeek(DaysFromCivil(getWeekYear(z), 1, 1))

\* getWeek(date, {weekStartsOn: 1}): weeks since the start of the week-year, plus one.
getWeek(z) == (startOfWeek(z) - startOfWeekYear(z)) \div 7 + 1

\* ISO 8601: the week-numbering year and week of a day are those of the
\* Thursday of its Monday-start week.
ISOWeekYear(z) == getYear(startOfWeek(z) + 3)
ISOWeek(z) ==
    LET thursday == startOfWeek(z) + 3
    IN  (thursday - DaysFromCivil(getYear(thursday), 1, 1)) \div 7 + 1

----------------------------------------------------------------------------
(* Storage layer: raw-data snapshots and sync-state *)

Integrations == {"slack", "github", "gcal", "jira"}

\* The empty object {} (and the empty directory).
Empty == [k \in {} |-> 0]

\* An activity record; `timestamp` is its instant.
Activity(t) == [timestamp |-> t]

\* The `data` argument of saveRawData: an array or a single object.
ArrayArg(seq) == [isArray |-> TRUE, v |-> seq]
ObjectArg(a) == [isArray |-> FALSE, v |-> a]

\* `data: Array.isArray(data) ? data : [data]`
\* (faulty variant: the new array is appended to the stored one)
DataArrayAppend(existingData, data) ==
    (IF "data" \in DOMAIN existingData THEN existingData.data ELSE <<>>)
        \o (IF data.isArray THEN data.v ELSE <<data.v>>)
DataArray(existingData, data) == IF data.isArray THEN data.v ELSE <<data.v>>

\* The file saveRawData and getRawData resolve for (integration, date).
RawKey(integration, date) == <<integration, format(newDate(date))>>

\* (faulty variant: the stored document's fields win over the new ones)
saveRawDataExistingWins(files, integration, date, data, now) ==
    LET filePath == RawKey(integration, date)
        existingData == IF filePath \in DOMAIN files THEN files[filePath] ELSE Empty
        mergedData == existingData
                          @@ [timestamp |-> now, data |-> DataArray(existingData, data)]
    IN  (filePath :> mergedData) @@ files

\* saveRawData(integration, date, data) at clock reading now: the new directory.
saveRawData(files, integration, date, data, now) ==
    LET filePath == RawKey(integration, date)
        existingData == IF filePath \in DOMAIN files THEN files[filePath] ELSE Empty
        mergedData == [timestamp |-> now, data |-> DataArray(existingData, data)]
                          @@ existingData
    IN  (filePath :> mergedData) @@ files

\* getRawData(integration, date): the document, or null.
Null == [null |-> TRUE]
getRawData(files, integration, date) ==
    LET filePath == RawKey(integration, date)
    IN  IF filePath \in DOMAIN files THEN files[filePath] ELSE Null

\* The sync-state file: missing, unreadable (corrupt JSON) or a JSON object.
MissingFile == [status |-> "missing", json |-> Empty]
CorruptFile == [status |-> "corrupt", json |-> Empty]
JsonFile(obj) == [status |-> "ok", json |-> obj]

\* getSyncState(): the whole object; {} when the file is missing or unreadable.
getSyncStateAll(file) == IF file.status = "ok" THEN file.json ELSE Empty

\* getSyncState(integration): syncState[integration] || {}
getSyncState(file, integration) ==
    LET syncState == getSyncStateAll(file)
    IN  IF integration \in DOMAIN syncState THEN syncState[integration] ELSE Empty

\* The record setSyncState stores: {...current, ...state, lastSync: now}
\* (faulty variant: the stored fields are dropped)
MergedStateNoKeep(current, state, now) == [lastSync |-> now] @@ state
MergedState(current, state, now) == [lastSync |-> now] @@ state @@ current

\* setSyncState(integration, state) at clock reading now: the new file.
setSyncState(file, integration, state, now) ==
    LET currentState == getSyncStateAll(file)
        current == IF integration \in DOMAIN currentState
                   THEN currentState[integration] ELSE Empty
    IN  JsonFile((integration :> MergedState(current, state, now)) @@ currentState)

----------------------------------------------------------------------------
(* Direct calls of the storage API (SpecStorage) *)

IdleSync == [pc |-> "idle"]

\* Arguments the calls are made with.
ApiIntegrations == {"slack", "jira"}
ApiDates == {StrDate(1), ObjDate(24 + 21)}
ApiData == {ArrayArg(<<Activity(27)>>),
            ArrayArg(<<Activity(45), Activity(27)>>),
            ArrayArg(<<>>),
            ObjectArg(Activity(45))}
ApiStates == {[totalActivities |-> 1],
              [totalActivities |-> 2, userId |-> "U1"],
              [lastSync |-> 0, method |-> "search_api_daily"]}

InitStorage ==
    /\ tz \in TZOffsets
    /\ clock = 0
    /\ rawFiles = Empty
    /\ syncStateFile \in {MissingFile, CorruptFile}
    /\ log = <<>>
    /\ sync = IdleSync
    /\ journalFiles = Empty /\ input = Empty /\ output = Empty

CallSaveRawData(integration, date, data) ==
    /\ Len(log) < MaxCalls
    /\ clock' = clock + 1
    /\ rawFiles' = saveRawData(rawFiles, integration, date, data, clock')
    /\ log' = Append(log, [op |-> "saveRawData", integration |-> integration,
                           date |-> date, data |-> data,
                           ret |-> RawKey(integration, date)])
    /\ UNCHANGED <<tz, syncStateFile, sync>>
    /\ UNCHANGED journalVars

CallGetRawData(integration, date) ==
    /\ Len(log) < MaxCalls
    /\ log' = Append(log, [op |-> "getRawData", integration |-> integration,
                           date |-> date,
                           ret |-> getRawData(rawFiles, integration, date)])
    /\ UNCHANGED <<tz, clock, rawFiles, syncStateFile, sync>>
    /\ UNCHANGED journalVars

CallSetSyncState(integration, state) ==
    /\ Len(log) < MaxCalls
    /\ clock' = clock + 1
    /\ syncStateFile' = setSyncState(syncStateFile, integration, state, clock')
    /\ log' = Append(log, [op |-> "setSyncState", integration |-> integration,
                           state |-> state, now |-> clock',
                           before |-> syncStateFile, after |-> syncStateFile',
                           ret |-> syncStateFile'.json[integration]])
    /\ UNCHANGED <<tz, rawFiles, sync>>
    /\ UNCHANGED journalVars

CallGetSyncState(integration) ==
    /\ Len(log) < MaxCalls
    /\ log' = Append(log, [op |-> "getSyncState", integration |-> integration,
                           ret |-> getSyncState(syncStateFile, integration)])
    /\ UNCHANGED <<tz, clock, rawFiles, syncStateFile, sync>>
    /\ UNCHANGED journalVars

NextStorage ==
    \/ \E i \in ApiIntegrations, d \in ApiDates, a \in ApiData : CallSaveRawData(i, d, a)
    \/ \E i \in ApiIntegrations, d \in ApiDates : CallGetRawData(i, d)
    \/ \E i \in ApiIntegrations, s \in ApiStates : CallSetSyncState(i, s)
    \/ \E i \in ApiIntegrations : CallGetSyncState(i)

SpecStorage == InitStorage /\ [][NextStorage]_vars

\* C1: after saveRawData(integration, day, A) followed by
\* saveRawData(integration, day, B), getRawData(integration, day) returns a
\* document whose `data` array is exactly B: nothing of A is appended or kept.
C1_SecondSaveOverwrites ==
    \A n \in 3..Len(log) :
        (/\ log[n - 2].op = "saveRawData"
         /\ log[n - 1].op = "saveRawData"
         /\ log[n].op = "getRawData"
         /\ log[n - 1].integration = log[n - 2].integration
         /\ log[n].integration = log[n - 2].integration
         /\ log[n - 1].date = log[n - 2].date
         /\ log[n].date = log[n - 2].date
         /\ log[n - 1].data.isArray)
        => (/\ log[n].ret # Null
            /\ log[n].ret.data = log[n - 1].data.v)

\* A run save(A); save(B); get on one (integration, day) with B # A, A non-empty.
C1_Witness ==
    /\ Len(log) = 3
    /\ log[1].op = "saveRawData" /\ log[2].op = "saveRawData"
    /\ log[3].op = "getRawData"
    /\ log[2].integration = log[1].integration /\ log[3].integration = log[1].integration
    /\ log[2].date = log[1].date /\ log[3].date = log[1].date
    /\ log[1].data = ArrayArg(<<Activity(45), Activity(27)>>)
    /\ log[2].data = ArrayArg(<<Activity(27)>>)
    /\ log[3].ret.data = <<Activity(27)>>

\* C4: setSyncState(i, s) stamps `lastSync`, overrides the fields s names, keeps
\* the stored fields s does not name, leaves every other integration's record
\* unchanged, and a following getSyncState(i) returns the merged record.
C4_SetSyncStateMerges ==
    \A n \in 1..Len(log) :
        log[n].op = "setSyncState" =>
            LET e == log[n]
                prev == getSyncState(e.before, e.integration)
                rec == getSyncState(e.after, e.integration)
            IN  /\ DOMAIN rec = DOMAIN prev \cup DOMAIN e.state \cup {"lastSync"}
                /\ rec.lastSync = e.now
                /\ \A f \in DOMAIN e.state \ {"lastSync"} : rec[f] = e.state[f]
                /\ \A f \in DOMAIN prev \ (DOMAIN e.state \cup {"lastSync"}) :
                       rec[f] = prev[f]
                /\ \A j \in Integrations \ {e.integration} :
                       getSyncState(e.after, j) = getSyncState(e.before, j)
                /\ e.ret = rec
                /\ (n < Len(log) /\ log[n + 1].op = "getSyncState"
                        /\ log[n + 1].integration = e.integration)
                       => log[n + 1].ret = rec

\* set(slack, two fields); set(slack, one of them); get(slack): the field the
\* second write does not name is kept, the named one and lastSync are replaced.
C4_Witness ==
    /\ Len(log) = 3
    /\ log[1].op = "setSyncState" /\ log[2].op = "setSyncState"
    /\ log[3].op = "getSyncState"
    /\ log[1].integration = "slack" /\ log[2].integration = "slack"
    /\ log[3].integration = "slack"
    /\ log[1].state = [totalActivities |-> 2, userId |-> "U1"]
    /\ log[2].state = [totalActivities |-> 1]
    /\ log[3].ret = [totalActivities |-> 1, userId |-> "U1", lastSync |-> 2]

----------------------------------------------------------------------------
(* Connector syncs (SpecSync) *)

Connectors == {"slack", "github", "jira"}

\* The activities the remote services hold: one per instant.
Acts == {Activity(t) : t \in Instants}

\* A set of activities as an array, ascending by timestamp.
RECURSIVE SeqOfSet(_)
SeqOfSet(S) ==
    IF S = {} THEN <<>>
    ELSE LET a == CHOOSE x \in S : \A y \in S : x.timestamp <= y.timestamp
         IN  <<a>> \o SeqOfSet(S \ {a})

\* The leading parts of an array: what a query returns when the service holds
\* only the first n of the activities.
Prefixes(seq) == {SubSeq(seq, 1, n) : n \in 0..Len(seq)}

\* What a per-day query for local day `dateStr` can return (Slack `on:<date>`
\* search after filtering, Jira getActivitiesForDate).
DayBatches(dateStr) ==
    Prefixes(SeqOfSet({a \in Acts : format(a.timestamp) = dateStr}))

\* What a range query can return (GitHub search `created:<start>..<end>` on the
\* UTC dates of the range).
RangeBatches(startDate, endDate) ==
    Prefixes(SeqOfSet({a \in Acts :
        /\ a.timestamp \div 24 >= startDate \div 24
        /\ a.timestamp \div 24 <= endDate \div 24}))

\* groupActivitiesByDate: an object keyed by the local day of each activity's
\* timestamp, as its entries <<key, batch>> in insertion order.
\* (faulty variant: every activity opens an entry of its own)
groupIntoUngrouped(grouped, activities) ==
    [i \in 1..Len(activities) |->
        <<format(newDate(ObjDate(activities[i].timestamp))), <<activities[i]>>>>]

RECURSIVE groupInto(_, _)
groupInto(grouped, activities) ==
    IF activities = <<>> THEN grouped
    ELSE LET activity == Head(activities)
             date == format(newDate(ObjDate(activity.timestamp)))
             at == {k \in 1..Len(grouped) : grouped[k][1] = date}
             next == IF at = {}
                     THEN Append(grouped, <<date, <<activity>>>>)
                     ELSE [grouped EXCEPT ![CHOOSE k \in at : TRUE] =
                               <<date, Append(@[2], activity)>>]
         IN  groupInto(next, Tail(activities))
groupActivitiesByDate(activities) == groupInto(<<>>, activities)

\* A behaviour follows one sync of one connector (`sync --integration <name>`)
\* over the data directory that its earlier syncs left.
SyncFree(integration) == sync.pc = "idle" /\ sync.integration = integration

\* The date a connector hands to saveRawData for the batch of local day d: the
\* 'yyyy-MM-dd' key (Slack, GitHub), or the loop's Date object (Jira).
SaveDate(integration, d) ==
    IF integration = "jira" THEN ObjDate(24 * d + 12 - tz) ELSE StrDate(d)

\* The raw-data directory after earlier syncs stored the activities of the
\* local days in P.
RECURSIVE PriorFiles(_, _)
PriorFiles(integration, P) ==
    IF P = {} THEN Empty
    ELSE LET d == CHOOSE x \in P : \A y \in P : x <= y
             batch == SeqOfSet({a \in Acts : format(a.timestamp) = d})
             rest == PriorFiles(integration, P \ {d})
         IN  IF batch = <<>> THEN rest
             ELSE saveRawData(rest, integration, SaveDate(integration, d),
                              ArrayArg(batch), 0)

\* The sync-state file those earlier syncs left.
PriorState(integration, P) ==
    IF P = {} THEN MissingFile
    ELSE setSyncState(MissingFile, integration, [totalActivities |-> Cardinality(P)], 0)

\* The state a sync starts in; beforeFiles/beforeState remember what was stored.
StartedSync(integration, startDate, endDate, pc) ==
    [pc |-> pc, integration |-> integration,
     startDate |-> startDate, endDate |-> endDate, currentDate |-> startDate,
     byDate |-> <<>>, allActivities |-> <<>>, fetched |-> <<>>, saved |-> <<>>,
     beforeFiles |-> rawFiles, beforeState |-> syncStateFile]

\* Where the control goes when the saves of a sync are over.
\* (faulty variant: the sync-state is written after the first save)
AfterSavesEarly(entries) == "setState"
AfterSaves(entries) == IF entries = <<>> THEN "setState" ELSE "save"

\* Slack sync, lines 14-24: auth.test() resolves the identity (it may throw).
SlackBegin(startDate, endDate, authOk) ==
    /\ SyncFree("slack")
    /\ startDate <= endDate
    /\ sync' = StartedSync("slack", startDate, endDate,
                            IF authOk THEN "loop" ELSE "thrown")
    /\ UNCHANGED <<tz, clock, rawFiles, syncStateFile, log>>
    /\ UNCHANGED journalVars

\* Slack sync, lines 29-64: one iteration of the day-by-day search loop.
SlackSearchDay ==
    /\ sync.pc = "loop" /\ sync.integration = "slack"
    /\ sync.currentDate <= sync.endDate
    /\ \E dayActivities \in DayBatches(format(sync.currentDate)) :
       LET dateStr == format(sync.currentDate)
           byDate == IF Len(dayActivities) > 0
                     THEN Append(sync.byDate, <<dateStr, dayActivities>>)
                     ELSE sync.byDate
           nextDate == sync.currentDate + 24
       IN  sync' = [sync EXCEPT
                  !.byDate = byDate,
                  !.allActivities = @ \o dayActivities,
                  !.fetched = Append(@, <<dateStr, dayActivities>>),
                  !.currentDate = nextDate,
                  !.pc = IF nextDate <= sync.endDate THEN "loop"
                         ELSE AfterSaves(byDate)]
    /\ UNCHANGED <<tz, clock, rawFiles, syncStateFile, log>>
    /\ UNCHANGED journalVars

\* GitHub sync, lines 15-53: resolve the user (may throw), fetch, filter, group.
GitHubFetch(startDate, endDate, authOk, activities) ==
    /\ SyncFree("github")
    /\ startDate <= endDate
    /\ activities \in RangeBatches(startDate, endDate)
    /\ LET byDate == groupActivitiesByDate(activities)
       IN  sync' = IF authOk
                   THEN [StartedSync("github", startDate, endDate, AfterSaves(byDate))
                            EXCEPT !.byDate = byDate, !.allActivities = activities,
                                   !.fetched = byDate]
                   ELSE StartedSync("github", startDate, endDate, "thrown")
    /\ UNCHANGED <<tz, clock, rawFiles, syncStateFile, log>>
    /\ UNCHANGED journalVars

\* The save loop of the Slack and GitHub syncs: one saveRawData(dateStr, batch)
\* per entry of the grouped object; a failing write throws out of sync.
SyncSaveDay(writeOk) ==
    /\ sync.pc = "save" /\ sync.integration \in {"slack", "github"}
    /\ LET entry == Head(sync.byDate)
           date == StrDate(entry[1])
       IN  IF writeOk
           THEN /\ clock' = clock + 1
                /\ rawFiles' = saveRawData(rawFiles, sync.integration, date,
                                            ArrayArg(entry[2]), clock')
                /\ sync' = [sync EXCEPT
                       !.byDate = Tail(@),
                       !.saved = Append(@, <<RawKey(sync.integration, date), entry[2]>>),
                       !.pc = AfterSaves(Tail(sync.byDate))]
           ELSE /\ sync' = [sync EXCEPT !.pc = "thrown"]
                /\ UNCHANGED <<clock, rawFiles>>
    /\ UNCHANGED <<tz, syncStateFile, log>>
    /\ UNCHANGED journalVars

\* Jira sync, lines 22-34: nothing to set up.
JiraBegin(startDate, endDate) ==
    /\ SyncFree("jira")
    /\ startDate <= endDate
    /\ sync' = StartedSync("jira", startDate, endDate, "loop")
    /\ UNCHANGED <<tz, clock, rawFiles, syncStateFile, log>>
    /\ UNCHANGED journalVars

\* Jira sync, lines 36-47: one iteration: fetch the day, save it when non-empty.
JiraDay(writeOk) ==
    /\ sync.pc = "loop" /\ sync.integration = "jira"
    /\ sync.currentDate <= sync.endDate
    /\ \E activities \in DayBatches(format(sync.currentDate)) :
       LET date == ObjDate(sync.currentDate)
           nextDate == sync.currentDate + 24
           fetched == Append(sync.fetched, <<format(sync.currentDate), activities>>)
       IN  IF Len(activities) > 0
           THEN IF writeOk
                   THEN /\ clock' = clock + 1
                        /\ rawFiles' = saveRawData(rawFiles, "jira", date,
                                                    ArrayArg(activities), clock')
                        /\ sync' = [sync EXCEPT
                               !.allActivities = @ \o activities,
                               !.fetched = fetched,
                               !.saved = Append(@, <<RawKey("jira", date), activities>>),
                               !.currentDate = nextDate,
                               !.pc = IF nextDate <= sync.endDate THEN "loop"
                                      ELSE "setState"]
                   ELSE /\ sync' = [sync EXCEPT !.fetched = fetched, !.pc = "thrown"]
                        /\ UNCHANGED <<clock, rawFiles>>
           ELSE /\ writeOk
                /\ sync' = [sync EXCEPT
                       !.fetched = fetched,
                       !.currentDate = nextDate,
                       !.pc = IF nextDate <= sync.endDate THEN "loop" ELSE "setState"]
                /\ UNCHANGED <<clock, rawFiles>>
    /\ UNCHANGED <<tz, syncStateFile, log>>
    /\ UNCHANGED journalVars

\* The state each connector records when its sync is over.
SyncStateOf(s) ==
    IF s.integration = "jira"
    THEN [lastSyncDate |-> s.endDate, totalActivities |-> Len(s.allActivities)]
    ELSE [lastSyncStart |-> s.startDate, lastSyncEnd |-> s.endDate,
          totalActivities |-> Len(s.allActivities)]

\* `await this.storage.setSyncState(...)` and the return; a failing write throws.
SyncSetState(writeOk) ==
    /\ sync.pc = "setState"
    /\ IF writeOk
       THEN /\ clock' = clock + 1
            /\ syncStateFile' = setSyncState(syncStateFile, sync.integration,
                                              SyncStateOf(sync), clock')
            /\ sync' = [sync EXCEPT !.pc = "returned"]
       ELSE /\ sync' = [sync EXCEPT !.pc = "thrown"]
            /\ UNCHANGED <<clock, syncStateFile>>
    /\ UNCHANGED <<tz, rawFiles, log>>
    /\ UNCHANGED journalVars

InitSync ==
    /\ tz \in TZOffsets
    /\ clock = 0
    /\ log = <<>>
    /\ \E integration \in Connectors, P \in SUBSET DayKeys :
          /\ rawFiles = PriorFiles(integration, P)
          /\ syncStateFile = PriorState(integration, P)
          /\ sync = [pc |-> "idle", integration |-> integration]
    /\ journalFiles = Empty /\ input = Empty /\ output = Empty

NextSync ==
    \/ \E s \in Instants, e \in Instants, ok \in BOOLEAN : SlackBegin(s, e, ok)
    \/ SlackSearchDay
    \/ \E s \in Instants, e \in Instants, ok \in BOOLEAN :
          \E b \in RangeBatches(s, e) : GitHubFetch(s, e, ok, b)
    \/ \E ok \in BOOLEAN : SyncSaveDay(ok)
    \/ \E s \in Instants, e \in Instants : JiraBegin(s, e)
    \/ \E ok \in BOOLEAN : JiraDay(ok)
    \/ \E ok \in BOOLEAN : SyncSetState(ok)

SpecSync == InitSync /\ [][NextSync]_vars

\* The file that receives the batch a sync fetched for local day d.
BatchFile(integration, d) == RawKey(integration, SaveDate(integration, d))

\* The files a sync wrote: those of the days whose fetch was not empty.
WrittenFiles(s) ==
    {BatchFile(s.integration, s.fetched[k][1]) :
        k \in {j \in 1..Len(s.fetched) : s.fetched[j][2] # <<>>}}

\* The elements of an array.
Elems(seq) == {seq[k] : k \in 1..Len(seq)}

SavesOver(s) ==
    /\ s.byDate = <<>>
    /\ s.integration \in {"slack", "jira"} => s.currentDate > s.endDate
    /\ Len(s.saved) = Cardinality({k \in 1..Len(s.fetched) : s.fetched[k][2] # <<>>})

\* C3: the sync-state file changes only in the step that ends a sync, after
\* every day's saveRawData of that sync has returned; when a sync throws, the
\* integration's record is what it was before the sync.
C3_SyncStateOnlyByCompletedSync ==
    [][/\ syncStateFile' # syncStateFile =>
            (sync.pc = "setState" /\ sync'.pc = "returned" /\ SavesOver(sync))
       /\ sync'.pc = "thrown" =>
            getSyncState(syncStateFile', sync'.integration)
                = getSyncState(sync'.beforeState, sync'.integration)]_vars

\* A sync that threw on its second saveRawData, with a stored record to lose.
C3_Witness ==
    /\ sync.pc = "thrown"
    /\ Len(sync.saved) = 1
    /\ sync.byDate # <<>>
    /\ sync.integration \in DOMAIN getSyncStateAll(syncStateFile)

----------------------------------------------------------------------------
(* Journal files: paths, listing and migration *)

MaxJournalCalls == 2    \* calls of the journal API in one behaviour

\* A file name or path is the sequence of its UTF-16 code units, so that
\* Array.prototype.sort and the regular expressions see what the code sees.
PathText ==
    [ slash |-> <<47>>,
          \* "/"
      dash |-> <<45>>,
          \* "-"
      zero |-> <<48>>,
          \* "0"
      dotMd |-> <<46, 109, 100>>,
          \* ".md"
      daily |-> <<100, 97, 105, 108, 121>>,
          \* "daily"
      weekDash |-> <<119, 101, 101, 107, 45>>,
          \* "week-"
      reports |-> <<114, 101, 112, 111, 114, 116, 115>>,
          \* "reports"
      weekly |-> <<119, 101, 101, 107, 108, 121>>,
          \* "weekly"
      weeklyReport |-> <<119, 101, 101, 107, 108, 121, 45, 114, 101, 112, 111, 114, 116>>,
          \* "weekly-report"
      weeklyReportDash |-> <<119, 101, 101, 107, 108, 121, 45, 114, 101, 112, 111, 114, 116, 45>>,
          \* "weekly-report-"
      notesMd |-> <<110, 111, 116, 101, 115, 46, 109, 100>>,
          \* "notes.md"
      dot |-> <<46>>,
          \* "."
      dotDot |-> <<46, 46>> ]
          \* ".."

\* Number.prototype.toString for a natural number.
RECURSIVE toString(_)
toString(n) ==
    IF n < 10 THEN <<48 + n>> ELSE toString(n \div 10) \o <<48 + (n % 10)>>

\* String.prototype.padStart with a one-character filler.
RECURSIVE padStart(_, _, _)
padStart(str, targetLength, padString) ==
    IF Len(str) >= targetLength THEN str
    ELSE padStart(padString \o str, targetLength, padString)

startsWith(str, prefix) ==
    Len(str) >= Len(prefix) /\ SubSeq(str, 1, Len(prefix)) = prefix

endsWith(str, suffix) ==
    Len(str) >= Len(suffix)
        /\ SubSeq(str, Len(str) - Len(suffix) + 1, Len(str)) = suffix

\* path.join of two segments.
join(dir, name) == dir \o PathText.slash \o name

\* The 'yyyy-MM-dd' text of a local day, as date-fns format writes it.
dateStr(z) ==
    LET c == CivilFromDays(z)
    IN  padStart(toString(c.year), 4, PathText.zero) \o PathText.dash
            \o padStart(toString(c.month), 2, PathText.zero) \o PathText.dash
            \o padStart(toString(c.day), 2, PathText.zero)

\* /^\d$/ on one code unit
IsDigit(c) == c >= 48 /\ c <= 57

\* /^\d{4}-\d{2}-\d{2}$/
IsDateText(str) ==
    /\ Len(str) = 10
    /\ \A i \in {1, 2, 3, 4, 6, 7, 9, 10} : IsDigit(str[i])
    /\ str[5] = PathText.dash[1] /\ str[8] = PathText.dash[1]

\* file.match(/^\d{4}-\d{2}-\d{2}\.md$/)
IsDailyName(file) ==
    Len(file) = 13 /\ IsDateText(SubSeq(file, 1, 10)) /\ endsWith(file, PathText.dotMd)

\* file.match(/weekly-report-(\d{4}-\d{2}-\d{2})\.md$/) on a name that
\* starts with 'weekly-report-'
IsWeeklyReportName(file) ==
    /\ startsWith(file, PathText.weeklyReportDash) /\ endsWith(file, PathText.dotMd)
    /\ Len(file) >= Len(PathText.weeklyReportDash) + 13
    /\ SubSeq(file, Len(file) - 12 - Len(PathText.weeklyReportDash), Len(file) - 13)
            = PathText.weeklyReportDash
    /\ IsDateText(SubSeq(file, Len(file) - 12, Len(file) - 3))

\* The number written by the digits str[a..b].
RECURSIVE digitsValue(_, _, _)
digitsValue(str, a, b) ==
    IF a > b THEN 0 ELSE 10 * digitsValue(str, a, b - 1) + (str[b] - 48)

\* new Date('yyyy-MM-dd'): UTC midnight of that civil date.
parseDateText(str) ==
    24 * DaysFromCivil(digitsValue(str, 1, 4), digitsValue(str, 6, 7),
                       digitsValue(str, 9, 10))

\* getDailyJournalPath(date), relative to journal.outputDir: the year and the
\* week are those of the local day of the instant.
getDailyJournalPath(date) ==
    LET year == getYear(format(date))
        week == getWeek(format(date))
        weekFolder == PathText.weekDash \o padStart(toString(week), 2, PathText.zero)
    IN  join(join(PathText.daily, toString(year)), weekFolder)

\* The segments of a path.
RECURSIVE split(_)
split(p) ==
    IF \A i \in 1..Len(p) : p[i] # PathText.slash[1] THEN <<p>>
    ELSE LET i == CHOOSE k \in 1..Len(p) :
                      p[k] = PathText.slash[1] /\ \A j \in 1..(k - 1) : p[j] # PathText.slash[1]
         IN  <<SubSeq(p, 1, i - 1)>> \o split(SubSeq(p, i + 1, Len(p)))

\* path.join resolves the segments it is given: '' and '.' are dropped, and
\* '..' removes the segment before it (and stays when there is none).
RECURSIVE normalizeSegments(_, _)
normalizeSegments(segments, res) ==
    IF segments = <<>> THEN res
    ELSE IF Head(segments) \in {<<>>, PathText.dot}
    THEN normalizeSegments(Tail(segments), res)
    ELSE IF Head(segments) = PathText.dotDot /\ res # <<>>
                /\ res[Len(res)] # PathText.dotDot
    THEN normalizeSegments(Tail(segments), SubSeq(res, 1, Len(res) - 1))
    ELSE normalizeSegments(Tail(segments), Append(res, Head(segments)))

\* The path that a sequence of segments writes.
RECURSIVE joinSegments(_)
joinSegments(segments) ==
    IF Len(segments) <= 1 THEN (IF segments = <<>> THEN PathText.dot ELSE segments[1])
    ELSE join(joinSegments(SubSeq(segments, 1, Len(segments) - 1)),
              segments[Len(segments)])

\* getReportPath(type, date, fileName), relative to journal.outputDir.
getReportPath(type, date, fileName) ==
    joinSegments(normalizeSegments(
        split(join(join(join(PathText.reports, type), toString(getYear(format(date)))),
                   fileName)), <<>>))

\* saveReport(type, date, fileName, content): the written path and the
\* directory after it.
saveReport(files, type, date, fileName, content) ==
    [ret |-> getReportPath(type, date, fileName),
     files |-> (getReportPath(type, date, fileName) :> content) @@ files]

\* saveJournal(date, content): the written path and the directory after it.
saveJournal(files, date, content) ==
    LET fileName == dateStr(format(newDate(date))) \o PathText.dotMd
        filePath == join(getDailyJournalPath(date.t), fileName)
    IN  [ret |-> filePath, files |-> (filePath :> content) @@ files]

\* (faulty variant: the legacy flat file is looked up first)
getJournalLegacyFirst(files, date) ==
    LET fileName == dateStr(format(newDate(date))) \o PathText.dotMd
        filePath == join(getDailyJournalPath(date.t), fileName)
    IN  IF fileName \in DOMAIN files THEN files[fileName]
        ELSE IF filePath \in DOMAIN files THEN files[filePath]
        ELSE Null

\* getJournal(date): the nested file, else the legacy flat file, else null.
getJournal(files, date) ==
    LET fileName == dateStr(format(newDate(date))) \o PathText.dotMd
        filePath == join(getDailyJournalPath(date.t), fileName)
    IN  IF filePath \in DOMAIN files THEN files[filePath]
        ELSE IF fileName \in DOMAIN files THEN files[fileName]
        ELSE Null

\* fs.readdir(journal.outputDir): the names of its files and directories.
readdirBase(files) == {split(p)[1] : p \in DOMAIN files}

\* The comparison of Array.prototype.sort without a comparator: by code units.
RECURSIVE LexLess(_, _)
LexLess(a, b) ==
    IF b = <<>> THEN FALSE
    ELSE IF a = <<>> THEN TRUE
    ELSE IF a[1] # b[1] THEN a[1] < b[1]
    ELSE LexLess(Tail(a), Tail(b))

\* journals.sort()
RECURSIVE sort(_)
sort(S) ==
    IF S = {} THEN <<>>
    ELSE LET least == CHOOSE a \in S : \A b \in S \ {a} : LexLess(a, b)
         IN  <<least>> \o sort(S \ {least})

\* Array.prototype.reverse
reverse(s) == [i \in 1..Len(s) |-> s[Len(s) + 1 - i]]

\* listJournals(): the .md files of daily/<year>/<week>/ as relative paths,
\* then the .md names of the flat directory that do not start with
\* 'weekly-report', sorted as strings and reversed.
listJournals(files) ==
    LET mdFiles == {p \in DOMAIN files :
                        /\ Len(split(p)) = 4
                        /\ split(p)[1] = PathText.daily
                        /\ endsWith(split(p)[4], PathText.dotMd)}
        oldMdFiles == {file \in readdirBase(files) :
                        endsWith(file, PathText.dotMd) /\ ~startsWith(file, PathText.weeklyReport)}
    IN  reverse(sort(mdFiles \cup oldMdFiles))

\* Where migrateExistingJournals sends a flat file, or Null when it skips it.
migrateTarget(file) ==
    IF IsDailyName(file) /\ ~startsWith(file, PathText.weeklyReportDash)
    THEN join(getDailyJournalPath(parseDateText(SubSeq(file, 1, 10))), file)
    ELSE IF IsWeeklyReportName(file)
    THEN getReportPath(PathText.weekly,
            parseDateText(SubSeq(file, Len(file) - 12, Len(file) - 3)), file)
    ELSE Null

\* (faulty variant: fs.move with overwrite)
movedFilesOverwriting(files) ==
    {file \in DOMAIN files : Len(split(file)) = 1 /\ migrateTarget(file) # Null}

\* The flat files migrateExistingJournals moves: those with a target that
\* does not exist yet (fs.move throws when the destination exists, and the
\* throw is caught per file).
movedFiles(files) ==
    {file \in DOMAIN files :
        /\ Len(split(file)) = 1
        /\ migrateTarget(file) # Null
        /\ migrateTarget(file) \notin DOMAIN files}

\* migrateExistingJournals(): the number of files moved and the directory
\* after it.  Distinct files have distinct targets, so the order of the
\* loop does not matter.
migrateExistingJournals(files) ==
    [ret |-> Cardinality(movedFiles(files)),
     files |->
        [p \in {migrateTarget(file) : file \in movedFiles(files)} |->
            files[CHOOSE file \in movedFiles(files) : migrateTarget(file) = p]]
        @@ [p \in DOMAIN files \ movedFiles(files) |-> files[p]]]

----------------------------------------------------------------------------
(* The journal API called on an output directory that may hold legacy files *)

\* Local noon of a civil date: the instant a journal of that day is saved at.
LocalNoon(y, m, d) == 24 * DaysFromCivil(y, m, d) + 12

JournalDates ==
    {LocalNoon(2024, 1, 15), LocalNoon(2021, 1, 1), LocalNoon(2024, 12, 30)}

Contents == {"first", "second"}

\* Flat files an older version may have left in journal.outputDir.
LegacyNames ==
    { dateStr(DaysFromCivil(2024, 1, 15)) \o PathText.dotMd,
      dateStr(DaysFromCivil(2021, 1, 1)) \o PathText.dotMd,
      PathText.weeklyReportDash \o dateStr(DaysFromCivil(2024, 1, 15)) \o PathText.dotMd,
      PathText.notesMd }

InitJournal ==
    /\ tz \in TZOffsets
    /\ clock = 0
    /\ rawFiles = Empty
    /\ syncStateFile = MissingFile
    /\ sync = IdleSync
    /\ log = <<>>
    /\ \E legacy \in SUBSET LegacyNames :
          journalFiles = [p \in legacy |-> "legacy"]
    /\ input = Empty /\ output = Empty

CallSaveJournal(date, content) ==
    /\ Len(log) < MaxJournalCalls
    /\ LET r == saveJournal(journalFiles, ObjDate(date), content)
       IN  /\ journalFiles' = r.files
           /\ log' = Append(log, [op |-> "saveJournal", date |-> date,
                                  content |-> content, ret |-> r.ret,
                                  before |-> journalFiles, after |-> r.files])
    /\ UNCHANGED <<tz, rawVars>>

CallGetJournal(date) ==
    /\ Len(log) < MaxJournalCalls
    /\ log' = Append(log, [op |-> "getJournal", date |-> date,
                           ret |-> getJournal(journalFiles, ObjDate(date)),
                           before |-> journalFiles, after |-> journalFiles])
    /\ UNCHANGED <<tz, journalFiles, rawVars>>

CallListJournals ==
    /\ Len(log) < MaxJournalCalls
    /\ log' = Append(log, [op |-> "listJournals",
                           ret |-> listJournals(journalFiles),
                           before |-> journalFiles, after |-> journalFiles])
    /\ UNCHANGED <<tz, journalFiles, rawVars>>

CallMigrateExistingJournals ==
    /\ Len(log) < MaxJournalCalls
    /\ LET r == migrateExistingJournals(journalFiles)
       IN  /\ journalFiles' = r.files
           /\ log' = Append(log, [op |-> "migrateExistingJournals",
                                  ret |-> r.ret,
                                  before |-> journalFiles, after |-> r.files])
    /\ UNCHANGED <<tz, rawVars>>

\* The file names the report commands save under: the default name, or the
\* value of --name.
ReportNames ==
    { PathText.weeklyReportDash \o dateStr(DaysFromCivil(2024, 1, 15)) \o PathText.dotMd,
      PathText.notesMd,
      join(join(join(PathText.dotDot, PathText.dotDot), PathText.dotDot),
           join(getDailyJournalPath(LocalNoon(2024, 1, 15)),
                dateStr(DaysFromCivil(2024, 1, 15)) \o PathText.dotMd)) }

\* The end of a report command: reportFileName = options.name || <default>,
\* then storage.save<Kind>Report(reportFileName, reportContent, date).
CallSaveReport(date, fileName) ==
    /\ Len(log) < MaxJournalCalls
    /\ LET r == saveReport(journalFiles, PathText.weekly, date, fileName, "report")
       IN  /\ journalFiles' = r.files
           /\ log' = Append(log, [op |-> "saveReport", date |-> date,
                                  content |-> "report", ret |-> r.ret,
                                  before |-> journalFiles, after |-> r.files])
    /\ UNCHANGED <<tz, rawVars>>

NextJournal ==
    \/ \E date \in JournalDates, content \in Contents :
          CallSaveJournal(date, content)
    \/ \E fileName \in ReportNames : CallSaveReport(LocalNoon(2024, 1, 15), fileName)
    \/ \E date \in JournalDates : CallGetJournal(date)
    \/ CallListJournals
    \/ CallMigrateExistingJournals

SpecJournal == InitJournal /\ [][NextJournal]_vars

\* The calls of one operation recorded in the log.
CallsOf(op) == {n \in 1..Len(log) : log[n].op = op}

\* The last segment of a path: the file name.
basename(p) == split(p)[Len(split(p))]

\* The path of the journal of local day z under ISO 8601 week numbering.
ISOJournalPath(z) ==
    join(join(join(PathText.daily, toString(ISOWeekYear(z))),
              PathText.weekDash \o padStart(toString(ISOWeek(z)), 2, PathText.zero)),
         dateStr(z) \o PathText.dotMd)

\* C5 as the specification states it: saveJournal stores the journal of a day
\* under daily/<ISO week-numbering year>/week-<ISO week>/<yyyy-MM-dd>.md.
C5_JournalPathIsISO ==
    \A n \in CallsOf("saveJournal") :
        /\ log[n].ret = ISOJournalPath(format(log[n].date))
        /\ log[n].ret \in DOMAIN log[n].after
        /\ log[n].after[log[n].ret] = log[n].content

\* The path under which saveJournal and getJournal keep the journal of the
\* civil date written in a legacy file name.
JournalPathOfName(file) ==
    LET z == parseDateText(SubSeq(file, 1, 10)) \div 24
    IN  join(getDailyJournalPath(24 * z + 12 - tz), file)

\* C6 as the specification states it: migration moves every flat
\* YYYY-MM-DD.md whose place in the nested layout is free to the journal path
\* of that date, in every time zone, and leaves alone every flat file that is
\* neither a daily journal nor a weekly report.
C6_MigrateMovesToDatePath ==
    \A n \in CallsOf("migrateExistingJournals") :
        LET before == log[n].before
            after == log[n].after
        IN  \A file \in {p \in DOMAIN before : Len(split(p)) = 1} :
                IF IsDailyName(file)
                THEN (JournalPathOfName(file) \notin DOMAIN before
                        /\ migrateTarget(file) \notin DOMAIN before)
                        => /\ file \notin DOMAIN after
                           /\ JournalPathOfName(file) \in DOMAIN after
                           /\ after[JournalPathOfName(file)] = before[file]
                ELSE IsWeeklyReportName(file)
                        \/ (file \in DOMAIN after /\ after[file] = before[file])

\* C7 as the specification states it: listJournals returns the nested and the
\* legacy .md journals, weekly reports excluded, with file names
\* non-increasing along the list.
C7_ListNewestFirst ==
    \A n \in CallsOf("listJournals") :
        LET r == log[n].ret
            before == log[n].before
        IN  /\ {r[i] : i \in 1..Len(r)} =
                  {p \in DOMAIN before :
                      /\ endsWith(p, PathText.dotMd)
                      /\ ~startsWith(basename(p), PathText.weeklyReport)
                      /\ Len(split(p)) = 1 \/ split(p)[1] = PathText.daily}
            /\ \A i, j \in 1..Len(r) :
                  i < j => ~LexLess(basename(r[i]), basename(r[j]))

----------------------------------------------------------------------------
(* Text helpers shared by the channel filter and the event categorizer *)

\* String.prototype.toLowerCase on the ASCII letters.
toLowerCase(str) ==
    [i \in 1..Len(str) |-> IF str[i] >= 65 /\ str[i] <= 90 THEN str[i] + 32 ELSE str[i]]

\* String.prototype.includes
includes(str, searchString) ==
    \E i \in 1..(Len(str) - Len(searchString) + 1) :
        SubSeq(str, i, i + Len(searchString) - 1) = searchString

\* String.prototype.replace with a string pattern: the first occurrence only.
replace(str, pattern, replacement) ==
    IF ~includes(str, pattern) THEN str
    ELSE LET i == CHOOSE k \in 1..(Len(str) - Len(pattern) + 1) :
                      /\ SubSeq(str, k, k + Len(pattern) - 1) = pattern
                      /\ \A j \in 1..(k - 1) :
                            SubSeq(str, j, j + Len(pattern) - 1) # pattern
         IN  SubSeq(str, 1, i - 1) \o replacement
                 \o SubSeq(str, i + Len(pattern), Len(str))

\* The texts of the filter: the glob and regular-expression characters, the
\* default patterns and channel names.
SlackText ==
    [ star |-> <<42>>,
          \* "*"
      dotStar |-> <<46, 42>>,
          \* ".*"
      dot |-> <<46>>,
          \* "."
      testGlob |-> <<116, 101, 115, 116, 45, 42>>,
          \* "test-*"
      tempGlob |-> <<116, 101, 109, 112, 45, 42>>,
          \* "temp-*"
      testFoo |-> <<116, 101, 115, 116, 45, 102, 111, 111>>,
          \* "test-foo"
      testFooUpper |-> <<84, 69, 83, 84, 45, 70, 111, 111>>,
          \* "TEST-Foo"
      test |-> <<116, 101, 115, 116>>,
          \* "test"
      contest1 |-> <<99, 111, 110, 116, 101, 115, 116, 45, 49>>,
          \* "contest-1"
      dev |-> <<100, 101, 118>>,
          \* "dev"
      general |-> <<103, 101, 110, 101, 114, 97, 108>>,
          \* "general"
      random |-> <<114, 97, 110, 100, 111, 109>>,
          \* "random"
      directMessage |-> <<68, 105, 114, 101, 99, 116, 32, 77, 101, 115, 115, 97, 103, 101>> ]
          \* "Direct Message"

\* new RegExp(source, 'i') for a source made of literal characters, '.' and
\* the quantifier '*': the sequence of its terms.
RECURSIVE RegExp(_)
RegExp(source) ==
    IF source = <<>> THEN <<>>
    ELSE LET star == Len(source) >= 2 /\ source[2] = SlackText.star[1]
             term == [any |-> source[1] = SlackText.dot[1], ch |-> source[1], star |-> star]
         IN  <<term>> \o RegExp(SubSeq(source, IF star THEN 3 ELSE 2, Len(source)))

\* One character against one term, ignoring case; '.' takes any character
\* but a line terminator.
termTakes(term, c) ==
    IF term.any THEN c # 10 /\ c # 13
    ELSE toLowerCase(<<term.ch>>) = toLowerCase(<<c>>)

\* The terms match a prefix of str.
RECURSIVE matchHere(_, _)
matchHere(terms, str) ==
    IF terms = <<>> THEN TRUE
    ELSE LET term == Head(terms)
             step == str # <<>> /\ termTakes(term, Head(str))
         IN  IF term.star
             THEN matchHere(Tail(terms), str)
                      \/ (step /\ matchHere(terms, Tail(str)))
             ELSE step /\ matchHere(Tail(terms), Tail(str))

\* regex.test(str): the expression is not anchored, a match may start anywhere.
test(regex, str) ==
    \E i \in 1..(Len(str) + 1) : matchHere(regex, SubSeq(str, i, Len(str)))

----------------------------------------------------------------------------
(* Slack search connector: the message filter *)

\* includes on an array
arrayIncludes(array, x) == \E i \in 1..Len(array) : array[i] = x

\* shouldIncludeMessage(message) under this.config
shouldIncludeMessage(config, message) ==
    IF Len(message.text) < config.minMessageLength THEN FALSE
    ELSE IF arrayIncludes(config.excludeChannels, message.channel) THEN FALSE
    ELSE IF \E k \in 1..Len(config.excludeChannelPatterns) :
                test(RegExp(replace(config.excludeChannelPatterns[k],
                                    SlackText.star, SlackText.dotStar)),
                     message.channel)
         THEN FALSE
    ELSE IF ~config.trackDMs /\ message.type = "direct_message" THEN FALSE
    ELSE TRUE

FilterChannels ==
    {SlackText.testFoo, SlackText.testFooUpper, SlackText.test, SlackText.contest1,
     SlackText.dev, SlackText.general, SlackText.directMessage}

\* A message text of n characters.
TextOfLength(n) == [i \in 1..n |-> 120]

\* The default Slack settings, with the lists and flags a user may edit.
SlackConfigs ==
    [minMessageLength : {10},
     excludeChannels : {<<SlackText.random, SlackText.general>>, <<>>},
     excludeChannelPatterns :
        {<<SlackText.testGlob>>, <<SlackText.testGlob, SlackText.tempGlob>>, <<>>},
     trackDMs : BOOLEAN]

FilterMessages ==
    [text : {TextOfLength(9), TextOfLength(10)},
     channel : FilterChannels,
     type : {"public_channel_message", "direct_message"}]

\* A pure function is applied once to the drawn argument.
Pending == [pending |-> TRUE]

InitFilter ==
    /\ tz = 0 /\ clock = 0
    /\ rawFiles = Empty /\ syncStateFile = MissingFile
    /\ sync = IdleSync /\ log = <<>>
    /\ journalFiles = Empty
    /\ \E config \in SlackConfigs, message \in FilterMessages :
          input = [config |-> config, message |-> message]
    /\ output = Pending

CallShouldIncludeMessage ==
    /\ output = Pending
    /\ output' = [ret |-> shouldIncludeMessage(input.config, input.message)]
    /\ UNCHANGED <<tz, clock, rawFiles, syncStateFile, sync, log, journalFiles, input>>

NextFilter == CallShouldIncludeMessage

SpecFilter == InitFilter /\ [][NextFilter]_vars

\* C8 as the specification states it: with the single pattern 'test-*', a
\* long enough message of a channel that is not in excludeChannels (and is
\* not a direct message dropped by trackDMs) is excluded when its channel is
\* test-foo or test, in any letter case, and kept when it is contest-1.
C8_GlobAnchored ==
    (/\ output # Pending
     /\ input.config.excludeChannelPatterns = <<SlackText.testGlob>>
     /\ ~arrayIncludes(input.config.excludeChannels, input.message.channel)
     /\ Len(input.message.text) >= input.config.minMessageLength
     /\ (input.config.trackDMs \/ input.message.type # "direct_message"))
        => /\ toLowerCase(input.message.channel) \in {SlackText.testFoo, SlackText.test}
                => output.ret = FALSE
           /\ input.message.channel = SlackText.contest1 => output.ret = TRUE

----------------------------------------------------------------------------
(* Google Calendar connector: the event categorizer *)

\* The joining space and the event titles.
GCalText ==
    [ space |-> <<32>>,
          \* " "
      dailyStandup |-> <<68, 97, 105, 108, 121, 32, 83, 116, 97, 110, 100, 117, 112>>,
          \* "Daily Standup"
      sprintPlanning |-> <<83, 112, 114, 105, 110, 116, 32, 80, 108, 97, 110, 110, 105, 110,
                           103, 32, 83, 101, 115, 115, 105, 111, 110>>,
          \* "Sprint Planning Session"
      lunch |-> <<76, 117, 110, 99, 104>>,
          \* "Lunch"
      stand |-> <<83, 116, 97, 110, 100>> ]
          \* "Stand"

\* The keywords of each category.
Keywords ==
    [ standup |->
          {<<115, 116, 97, 110, 100, 117, 112>>,
           <<115, 116, 97, 110, 100, 32, 117, 112>>,
           <<100, 97, 105, 108, 121>>},
          \* 'standup', 'stand up', 'daily'
      retrospective |->
          {<<114, 101, 116, 114, 111>>,
           <<114, 101, 116, 114, 111, 115, 112, 101, 99, 116, 105, 118, 101>>},
          \* 'retro', 'retrospective'
      planning |->
          {<<112, 108, 97, 110, 110, 105, 110, 103>>,
           <<115, 112, 114, 105, 110, 116, 32, 112, 108, 97, 110, 110, 105, 110, 103>>},
          \* 'planning', 'sprint planning'
      review |->
          {<<114, 101, 118, 105, 101, 119>>,
           <<100, 101, 109, 111>>},
          \* 'review', 'demo'
      one_on_one |->
          {<<49, 58, 49>>,
           <<111, 110, 101, 32, 111, 110, 32, 111, 110, 101>>,
           <<49, 45, 111, 110, 45, 49>>},
          \* '1:1', 'one on one', '1-on-1'
      interview |->
          {<<105, 110, 116, 101, 114, 118, 105, 101, 119>>,
           <<115, 99, 114, 101, 101, 110, 105, 110, 103>>},
          \* 'interview', 'screening'
      all_hands |->
          {<<97, 108, 108, 32, 104, 97, 110, 100, 115>>,
           <<116, 111, 119, 110, 32, 104, 97, 108, 108>>,
           <<99, 111, 109, 112, 97, 110, 121>>},
          \* 'all hands', 'town hall', 'company'
      training |->
          {<<116, 114, 97, 105, 110, 105, 110, 103>>,
           <<119, 111, 114, 107, 115, 104, 111, 112>>,
           <<108, 101, 97, 114, 110, 105, 110, 103>>} ]
          \* 'training', 'workshop', 'learning'

includesAny(str, keywords) == \E k \in keywords : includes(str, k)

\* categorizeEvent with attendees >= 1 counted as a meeting.
categorizeEventLoneMeeting(event) ==
    LET combined == toLowerCase(event.summary) \o GCalText.space \o toLowerCase(event.description)
    IN  IF includesAny(combined, Keywords.standup) THEN "standup"
        ELSE IF includesAny(combined, Keywords.retrospective) THEN "retrospective"
        ELSE IF includesAny(combined, Keywords.planning) THEN "planning"
        ELSE IF includesAny(combined, Keywords.review) THEN "review"
        ELSE IF includesAny(combined, Keywords.one_on_one) THEN "one_on_one"
        ELSE IF includesAny(combined, Keywords.interview) THEN "interview"
        ELSE IF includesAny(combined, Keywords.all_hands) THEN "all_hands"
        ELSE IF includesAny(combined, Keywords.training) THEN "training"
        ELSE IF event.attendees >= 1 THEN "meeting"
        ELSE "focus_time"

\* categorizeEvent(event).  event.summary and event.description are '' when
\* the event has none; event.attendees is the length of its attendee list
\* (0 when it has none).
categorizeEvent(event) ==
    LET title == toLowerCase(event.summary)
        description == toLowerCase(event.description)
        combined == title \o GCalText.space \o description
    IN  IF includesAny(combined, Keywords.standup) THEN "standup"
        ELSE IF includesAny(combined, Keywords.retrospective) THEN "retrospective"
        ELSE IF includesAny(combined, Keywords.planning) THEN "planning"
        ELSE IF includesAny(combined, Keywords.review) THEN "review"
        ELSE IF includesAny(combined, Keywords.one_on_one) THEN "one_on_one"
        ELSE IF includesAny(combined, Keywords.interview) THEN "interview"
        ELSE IF includesAny(combined, Keywords.all_hands) THEN "all_hands"
        ELSE IF includesAny(combined, Keywords.training) THEN "training"
        ELSE IF event.attendees > 1 THEN "meeting"
        ELSE "focus_time"

MaxAttendees == 2   \* events have 0..MaxAttendees attendees

EventTitles ==
    {<<>>, GCalText.dailyStandup, GCalText.sprintPlanning, GCalText.lunch, GCalText.stand}

EventDescriptions ==
    { <<>>,
      <<78, 111, 116, 101, 115>>,                             \* "Notes"
      <<67, 111, 100, 101, 32, 114, 101, 118, 105, 101, 119>>,
          \* "Code review"
      <<82, 101, 116, 114, 111, 32, 105, 116, 101, 109, 115>>,
          \* "Retro items"
      <<68, 97, 105, 108, 121, 32, 115, 121, 110, 99>>,
          \* "Daily sync"
      <<117, 112, 32, 116, 111, 32, 116, 104, 101, 32, 114, 111, 111, 102>>,
          \* "up to the roof"
      <<67, 111, 109, 112, 97, 110, 121, 32, 117, 112, 100, 97, 116, 101>> }
          \* "Company update"

Events ==
    [summary : EventTitles, description : EventDescriptions, attendees : 0..MaxAttendees]

InitGCal ==
    /\ tz = 0 /\ clock = 0
    /\ rawFiles = Empty /\ syncStateFile = MissingFile
    /\ sync = IdleSync /\ log = <<>>
    /\ journalFiles = Empty
    /\ \E event \in Events : input = [event |-> event]
    /\ output = Pending

CallCategorizeEvent ==
    /\ output = Pending
    /\ output' = [ret |-> categorizeEvent(input.event)]
    /\ UNCHANGED <<tz, clock, rawFiles, syncStateFile, sync, log, journalFiles, input>>

NextGCal == CallCategorizeEvent

SpecGCal == InitGCal /\ [][NextGCal]_vars

\* C9 as the specification states it: "Daily Standup" is a standup, "Sprint
\* Planning Session" is planning, and an event with no title and at most one
\* attendee is focus time whatever its description.
C9_CategoryByTitleAlone ==
    output # Pending =>
        /\ input.event.summary = GCalText.dailyStandup => output.ret = "standup"
        /\ input.event.summary = GCalText.sprintPlanning => output.ret = "planning"
        /\ (input.event.summary = <<>> /\ input.event.attendees <= 1)
               => output.ret = "focus_time"

\* The text contains no keyword of the given categories.
KeywordFree(str, keywordSets) ==
    \A keywords \in keywordSets : ~includesAny(toLowerCase(str), keywords)

AllKeywordSets == {Keywords[category] : category \in DOMAIN Keywords}

\* C9 amended: "Daily Standup" is a standup; "Sprint Planning Session" is
\* planning when its description has no standup or retrospective keyword;
\* an event with no title and at most one attendee is focus time exactly
\* when its description has no category keyword at all.
C9_CategoryByTitleAndDescription ==
    output # Pending =>
        /\ input.event.summary = GCalText.dailyStandup => output.ret = "standup"
        /\ (/\ input.event.summary = GCalText.sprintPlanning
            /\ KeywordFree(input.event.description, {Keywords.standup, Keywords.retrospective}))
               => output.ret = "planning"
        /\ (input.event.summary = <<>> /\ input.event.attendees <= 1)
               => (output.ret = "focus_time"
                       <=> KeywordFree(input.event.description, AllKeywordSets))

\* An untitled event with one attendee and a keyword-free description was
\* categorized.
C9_Witness ==
    /\ output # Pending
    /\ input.event.summary = <<>>
    /\ input.event.attendees = 1
    /\ input.event.description # <<>>
    /\ KeywordFree(input.event.description, AllKeywordSets)
    /\ output.ret = "focus_time"

----------------------------------------------------------------------------
(* Summarization fallback *)

MaxActivities == 2      \* activities handed to fallbackSummary
KeyActivitiesShown == 10

ActivitySources == {"slack", "github", "gcal", "jira"}

\* A line of the document: the characters it starts with, then the values
\* interpolated after them.
Line(start, rest) == [start |-> start, rest |-> rest]
BlankLine == Line("", <<>>)

\* date.toDateString(): weekday, month, day and year of the local day.
toDateString(date) ==
    LET z == format(date)
        c == CivilFromDays(z)
    IN  <<getDay(z), c.month, c.day, c.year>>

\* activity.data is "full" (every field present), "noText" (an object
\* without `text`) or "none" (undefined).  Reading the record throws a
\* TypeError at data.text.substring for a Slack record without text, and at
\* data.type / data.eventType for a GitHub or calendar record without data;
\* describeActivity and buildSummarizationPrompt read the same fields.
throwsOnData(activity) ==
    \/ activity.source = "slack" /\ activity.data # "full"
    \/ activity.source \in {"github", "gcal"} /\ activity.data = "none"

\* describeActivity(activity), when it does not throw: one phrase per source.
describeActivity(activity) ==
    IF activity.source = "slack" THEN <<"Slack", activity.data>>
    ELSE IF activity.source = "github" THEN <<"GitHub", activity.data>>
    ELSE IF activity.source = "gcal" THEN <<"Calendar:", activity.data>>
    ELSE <<activity.source, "activity">>

\* activities.filter(a => a.source === source).length
countSource(activities, source) ==
    Cardinality({i \in 1..Len(activities) : activities[i].source = source})

\* The lines appended after '## Key Activities', with a placeholder bullet
\* written when there is no activity.
keyActivityLinesPlaceholder(activities) ==
    IF activities = <<>> THEN <<Line("- ", <<"No activities">>)>>
    ELSE [i \in 1..Len(activities) |-> Line("- ", describeActivity(activities[i]))]

\* activities.slice(0, 10).forEach(...): one '- ' line per shown activity.
keyActivityLines(activities) ==
    LET shown == SubSeq(activities, 1,
                        IF Len(activities) < KeyActivitiesShown
                        THEN Len(activities) ELSE KeyActivitiesShown)
    IN  [i \in 1..Len(shown) |-> Line("- ", describeActivity(shown[i]))]

\* fallbackSummary(activities, date) throws: describeActivity throws for one
\* of the activities it shows.
fallbackSummaryThrows(activities) ==
    \E i \in 1..Len(activities) : i <= KeyActivitiesShown /\ throwsOnData(activities[i])

\* fallbackSummary(activities, date), when it does not throw: the returned
\* text, split at its "\n".
fallbackSummary(activities, date) ==
    << Line("# ", <<"Work Summary for", toDateString(date)>>),
       BlankLine,
       Line("## ", <<"Activity Overview">>),
       Line("- ", <<"**Slack Communications**:", countSource(activities, "slack"),
                    "activities">>),
       Line("- ", <<"**GitHub Activities**:", countSource(activities, "github"),
                    "activities">>),
       Line("- ", <<"**Calendar Events**:", countSource(activities, "gcal"),
                    "events">>),
       BlankLine,
       Line("## ", <<"Key Activities">>) >>
        \o keyActivityLines(activities)
        \o <<BlankLine>>

SummaryActivity(source, data) == [source |-> source, data |-> data]

\* The outcome of a call: what it returned, or that it threw.
Returned(value) == [threw |-> FALSE, ret |-> value]
Threw == [threw |-> TRUE, ret |-> <<>>]

\* summarizeActivities(activities, date): the text of the model's response,
\* or the outcome of fallbackSummary when buildSummarizationPrompt, the
\* request ("rejected") or reading response.content[0].text ("noContent")
\* throws.
summarizeActivities(activities, date, api) ==
    IF (\E i \in 1..Len(activities) : throwsOnData(activities[i])) \/ api # "ok"
    THEN IF fallbackSummaryThrows(activities) THEN Threw
         ELSE Returned(fallbackSummary(activities, date))
    ELSE Returned(<<Line("", <<"response.content[0].text">>)>>)

RECURSIVE SeqsUpTo(_, _)
SeqsUpTo(S, n) ==
    IF n = 0 THEN {<<>>}
    ELSE SeqsUpTo(S, n - 1)
            \cup {Append(q, x) : q \in {r \in SeqsUpTo(S, n - 1) : Len(r) = n - 1}, x \in S}

InitAI ==
    /\ tz \in TZOffsets
    /\ clock = 0
    /\ rawFiles = Empty /\ syncStateFile = MissingFile
    /\ sync = IdleSync /\ log = <<>>
    /\ journalFiles = Empty
    /\ \E activities \in SeqsUpTo({SummaryActivity(x, data) : x \in ActivitySources,
                                        data \in {"full", "noText", "none"}},
                                   MaxActivities),
          date \in {d + h : d \in JournalDates, h \in {0 - 11, 11}} :
          input = [activities |-> activities, date |-> date]
    /\ output = Pending

CallFallbackSummary ==
    /\ output = Pending
    /\ output' = IF fallbackSummaryThrows(input.activities) THEN Threw
                  ELSE Returned(fallbackSummary(input.activities, input.date))
    /\ UNCHANGED <<tz, clock, rawFiles, syncStateFile, sync, log, journalFiles, input>>

CallSummarizeActivities(api) ==
    /\ log = <<>>
    /\ log' = <<[op |-> "summarizeActivities", api |-> api,
                 out |-> summarizeActivities(input.activities, input.date, api)]>>
    /\ UNCHANGED <<tz, clock, rawFiles, syncStateFile, sync, journalFiles, input, output>>

\* fallbackCategorization(activities): the activities of slack, github and
\* gcal under three keys; the keys left with no activity are deleted.
fallbackCategorization(activities) ==
    LET categories ==
            [Communication |-> SelectSeq(activities, LAMBDA a : a.source = "slack"),
             Development |-> SelectSeq(activities, LAMBDA a : a.source = "github"),
             Meetings |-> SelectSeq(activities, LAMBDA a : a.source = "gcal")]
    IN  [key \in {k \in DOMAIN categories : Len(categories[k]) # 0} |-> categories[key]]

\* categorizeActivities(activities): the activities themselves when
\* categorizeWork is off. Otherwise the model is asked; api is what comes of
\* it: "ok" (an answer whose JSON puts every index under one category),
\* "rejected" (the call throws), "noJson" (no braces in the answer) or
\* "badJson" (JSON.parse throws). Every failure goes to the fallback.
categorizeActivities(activities, categorizeWork, api) ==
    IF ~categorizeWork THEN [Uncategorized |-> activities]
    ELSE IF api = "ok" THEN [Work |-> activities]
    ELSE fallbackCategorization(activities)

CallCategorizeActivities(categorizeWork, api) ==
    /\ log = <<>>
    /\ log' = <<[op |-> "categorizeActivities", api |-> api,
                 categorizeWork |-> categorizeWork,
                 out |-> categorizeActivities(input.activities, categorizeWork, api)]>>
    /\ UNCHANGED <<tz, clock, rawFiles, syncStateFile, sync, journalFiles, input, output>>

NextAI ==
    \/ CallFallbackSummary
    \/ \E api \in {"ok", "rejected", "noContent"} : CallSummarizeActivities(api)
    \/ \E categorizeWork \in BOOLEAN, api \in {"ok", "rejected", "noJson", "badJson"} :
          CallCategorizeActivities(categorizeWork, api)

SpecAI == InitAI /\ [][NextAI]_vars

\* The lines of a document that are bullet items.
BulletLines(doc) == {i \in 1..Len(doc) : doc[i].start = "- "}

\* The header line '# Work Summary for <date>' of the local day of the call.
HeaderLine(date) ==
    Line("# ", <<"Work Summary for",
                 <<getDay(format(date)), CivilFromDays(format(date)).month,
                   CivilFromDays(format(date)).day, CivilFromDays(format(date)).year>> >>)

\* C10 as the specification states it: for no activities the document has
\* the header line and no line starting with '- '.
C10_NoBulletsForNoActivities ==
    (output # Pending /\ input.activities = <<>>) =>
        /\ \E i \in 1..Len(output.ret) : output.ret[i] = HeaderLine(input.date)
        /\ BulletLines(output.ret) = {}

\* C10 amended: for no activities the document starts with the header line,
\* its only bullet items are the three lines of the Activity Overview, each
\* with the count 0, and no line follows the '## Key Activities' heading but
\* the empty end of the text.
C10_OnlyOverviewBulletsForNoActivities ==
    (output # Pending /\ input.activities = <<>>) =>
        LET doc == output.ret
        IN  /\ doc[1] = HeaderLine(input.date)
            /\ BulletLines(doc) = {4, 5, 6}
            /\ doc[3] = Line("## ", <<"Activity Overview">>)
            /\ \A i \in BulletLines(doc) : doc[i].rest[2] = 0
            /\ doc[Len(doc) - 1] = Line("## ", <<"Key Activities">>)
            /\ doc[Len(doc)] = BlankLine

\* fallbackSummary has returned for an empty activity list.
C10_Witness ==
    /\ output # Pending
    /\ input.activities = <<>>
    /\ Cardinality(BulletLines(output.ret)) = 3

\* C11 as the specification states it: summarizeActivities never throws, its
\* result on a failure is that of fallbackSummary, and fallbackSummary
\* completes for every activity record, with or without data.
C11_SummarizeNeverThrows ==
    /\ \A n \in 1..Len(log) :
          log[n].op = "summarizeActivities" =>
              /\ ~log[n].out.threw
              /\ log[n].api # "ok" =>
                    log[n].out.ret = fallbackSummary(input.activities, input.date)
    /\ output # Pending => ~output.threw

----------------------------------------------------------------------------
(* What a connector's sync hands back to its caller *)

\* The value of `await integration.sync(...)` for a sync that completed:
\* Slack returns allActivities and GitHub filteredActivities; the Jira sync
\* has no return statement, so its caller receives undefined.
syncResult(s) ==
    IF s.integration = "jira" THEN [defined |-> FALSE, value |-> <<>>]
    ELSE [defined |-> TRUE, value |-> s.allActivities]

\* The batches a sync handed to saveRawData, one after the other.
RECURSIVE SavedBatches(_)
SavedBatches(saved) ==
    IF saved = <<>> THEN <<>> ELSE Head(saved)[2] \o SavedBatches(Tail(saved))

\* C12 as the specification states it: a sync that completes returns the
\* flat list of its activities, the concatenation of the day batches it
\* passed to saveRawData.
C12_SyncReturnsFlatList ==
    sync.pc = "returned" =>
        /\ syncResult(sync).defined
        /\ syncResult(sync).value = SavedBatches(sync.saved)

\* C13 as the specification states it: whatever the times of day of
\* startDate <= endDate, once the search loop of the Slack sync is over,
\* searchUserMessages has been called once for each local day from
\* startDate's to endDate's, in ascending order, and for no other day.
C13_OneSearchPerDay ==
    (/\ sync.integration = "slack"
     /\ sync.pc \in {"save", "setState", "returned"}
     /\ sync.startDate <= sync.endDate) =>
        [k \in 1..Len(sync.fetched) |-> sync.fetched[k][1]]
            = [k \in 1..(format(sync.endDate) - format(sync.startDate) + 1) |->
                   format(sync.startDate) + k - 1]

----------------------------------------------------------------------------
(* The `sync` and `run` commands (SpecCLI) *)

\* validateGCalTokenBeforeRun(): true when Google Calendar is disabled or the
\* token passes validateGoogleToken; promptTokenRefresh always returns false.
validateGCalTokenBeforeRun(gcalEnabled, token) == ~gcalEnabled \/ token = "valid"

\* (faulty variant: the connectors are pushed in alphabetical order)
selectedIntegrationsAlphabetical(integration, enabled) ==
    SelectSeq(<<"gcal", "github", "jira", "slack">>,
              LAMBDA i : (integration = "" \/ integration = i) /\ i \in enabled)

\* The connectors a command syncs, in the order it pushes them: those that
\* --integration selects ("" when the option is absent) and the config enables.
selectedIntegrations(integration, enabled) ==
    SelectSeq(<<"slack", "github", "gcal", "jira">>,
              LAMBDA i : (integration = "" \/ integration = i) /\ i \in enabled)

\* A behaviour is one invocation: input is the command line, the config and
\* the state of the token; output is the process (pc, connectors still to
\* sync); log is the calls the command made.
InitCLI ==
    /\ tz \in TZOffsets
    /\ clock = 0
    /\ log = <<>>
    /\ sync = IdleSync
    /\ journalFiles = Empty
    /\ \E P \in {{}, {1}} :
          /\ rawFiles = PriorFiles("slack", P)
          /\ syncStateFile = PriorState("slack", P)
    /\ \E command \in {"sync", "run"}, integration \in Integrations \cup {""},
          enabled \in SUBSET Integrations, token \in {"valid", "expired", "apiError"} :
          input = [command |-> command, integration |-> integration,
                   enabled |-> enabled, token |-> token,
                   rawFiles |-> rawFiles, syncStateFile |-> syncStateFile]
    /\ output = [pc |-> "validate", integrations |-> <<>>]

\* (faulty variant: a failed validation is reported and the command goes on)
CliValidateTokenNoExit ==
    /\ output.pc = "validate"
    /\ log' = Append(log, [op |-> "validateGCalTokenBeforeRun",
                  ret |-> validateGCalTokenBeforeRun("gcal" \in input.enabled, input.token)])
    /\ output' = [output EXCEPT !.pc = "init"]
    /\ UNCHANGED <<tz, clock, rawFiles, syncStateFile, sync, journalFiles, input>>

\* The token check that opens both commands; `sync` makes it only when gcal is
\* among the connectors asked for. A false result ends the process with 1.
CliValidateToken ==
    /\ output.pc = "validate"
    /\ IF input.command = "sync" /\ input.integration \notin {"", "gcal"}
       THEN /\ output' = [output EXCEPT !.pc = "init"]
            /\ UNCHANGED log
       ELSE /\ log' = Append(log, [op |-> "validateGCalTokenBeforeRun",
                       ret |-> validateGCalTokenBeforeRun("gcal" \in input.enabled,
                                                          input.token)])
            /\ output' = [output EXCEPT !.pc = IF log'[1].ret THEN "init" ELSE "exit1"]
    /\ UNCHANGED <<tz, clock, rawFiles, syncStateFile, sync, journalFiles, input>>

\* configManager.load(); storage.init(); the list of connectors is built.
CliStorageInit ==
    /\ output.pc = "init"
    /\ log' = Append(log, [op |-> "storage.init", ret |-> TRUE])
    /\ output' = [pc |-> "sync",
                  integrations |-> selectedIntegrations(input.integration, input.enabled)]
    /\ UNCHANGED <<tz, clock, rawFiles, syncStateFile, sync, journalFiles, input>>

\* The loop takes the next connector and calls its sync.
CliSyncCall ==
    /\ output.pc = "sync" /\ output.integrations # <<>>
    /\ log' = Append(log, [op |-> "sync", ret |-> TRUE,
                           integration |-> Head(output.integrations)])
    /\ output' = [output EXCEPT !.pc = "syncing"]
    /\ UNCHANGED <<tz, clock, rawFiles, syncStateFile, sync, journalFiles, input>>

\* The awaited integration.sync(startDate, new Date()) settles: it has stored
\* the batch of a day with activity and its sync state, or it throws, and the
\* command's catch ends the process with 1.
CliSyncIntegration(d, ok) ==
    /\ output.pc = "syncing"
    /\ log' = Append(log, [op |-> "sync.settled", ret |-> ok,
                           integration |-> Head(output.integrations)])
    /\ clock' = clock + 1
    /\ IF ok
       THEN /\ rawFiles' = saveRawData(rawFiles, Head(output.integrations),
                                SaveDate(Head(output.integrations), d),
                                ArrayArg(<<Activity(24 * d + 3)>>), clock')
            /\ syncStateFile' = setSyncState(syncStateFile, Head(output.integrations),
                                     [totalActivities |-> 1], clock')
            /\ output' = [pc |-> "sync", integrations |-> Tail(output.integrations)]
       ELSE /\ output' = [output EXCEPT !.pc = "exit1"]
            /\ UNCHANGED <<rawFiles, syncStateFile>>
    /\ UNCHANGED <<tz, sync, journalFiles, input>>

\* Every connector is synced: `sync` is over; `run` goes on to generate the
\* journals, which succeeds or throws.
CliFinish(ok) ==
    /\ output.pc = "sync" /\ output.integrations = <<>>
    /\ IF input.command = "sync"
       THEN /\ output' = [output EXCEPT !.pc = "exit0"]
            /\ UNCHANGED log
       ELSE /\ log' = Append(log, [op |-> "generate", ret |-> ok])
            /\ output' = [output EXCEPT !.pc = IF ok THEN "exit0" ELSE "exit1"]
    /\ UNCHANGED <<tz, clock, rawFiles, syncStateFile, sync, journalFiles, input>>

NextCLI ==
    \/ CliValidateToken
    \/ CliStorageInit
    \/ CliSyncCall
    \/ \E d \in Days, ok \in BOOLEAN : CliSyncIntegration(d, ok)
    \/ \E ok \in BOOLEAN : CliFinish(ok)

SpecCLI == InitCLI /\ [][NextCLI]_vars

\* C14: when validateGCalTokenBeforeRun returned false, the process has exited
\* with status 1, storage.init and no connector's sync was ever called, and
\* the raw-data files and the sync-state file are what they were at the start.
C14_FailedValidationExitsBeforeWrites ==
    (\E n \in 1..Len(log) :
        log[n].op = "validateGCalTokenBeforeRun" /\ ~log[n].ret) =>
        /\ output.pc = "exit1"
        /\ \A n \in 1..Len(log) : log[n].op \notin {"storage.init", "sync"}
        /\ rawFiles = input.rawFiles
        /\ syncStateFile = input.syncStateFile

\* An invocation with Slack enabled, whose sync would store a batch, ended by
\* the failed token check.
C14_Witness ==
    /\ input.command = "run" /\ input.integration = "slack"
    /\ input.enabled = {"slack", "gcal"} /\ input.token = "expired"
    /\ output.pc = "exit1"
    /\ Len(log) = 1 /\ log[1].op = "validateGCalTokenBeforeRun" /\ ~log[1].ret

----------------------------------------------------------------------------
(* The web server's mutating endpoints (SpecWeb) *)

MaxRequests == 2    \* requests the server handles in one behaviour

\* res.status(status).json(body)
json(status, body) == [status |-> status, body |-> body]

\* The catch of every handler: res.status(500).json({ error: error.message })
caught == json(500, [error |-> "error.message"])

\* child.on('close', code => ...): the answer to the exit code of the spawned
\* command line.
onClose(code, completed, failed) ==
    IF code = 0
    THEN json(200, [success |-> TRUE, message |-> completed, output |-> "stdout"])
    ELSE json(500, [success |-> FALSE, message |-> failed, output |-> "stdout",
                    error |-> "stderr"])

\* The file PUT /api/journals/:date writes: the first daily/<year>/<week>/<date>.md
\* found under the year that date.split('-')[0] names; <<>> when there is none.
findJournal(files, date) ==
    LET year == split(date \o PathText.dash)[1]
        found == {q \in DOMAIN files :
                     /\ Len(split(q)) = 4
                     /\ split(q)[1] = PathText.daily /\ split(q)[2] = year
                     /\ split(q)[4] = date \o PathText.dotMd}
    IN  IF found = {} THEN <<>> ELSE sort(found)[1]

\* The server starts over the journals the generator saved; input is the
\* content of config.json, output the last response, log the responses so far.
InitWeb ==
    /\ tz \in TZOffsets
    /\ clock = 0
    /\ rawFiles = Empty
    /\ syncStateFile = MissingFile
    /\ sync = IdleSync
    /\ log = <<>>
    /\ journalFiles \in {Empty,
                          saveJournal(Empty, ObjDate(LocalNoon(2024, 1, 15)), "first").files}
    /\ input = [config |-> "default"]
    /\ output = Pending

\* res.json(...) / res.status(...).json(...): the response is sent and logged.
respond(endpoint, res) ==
    /\ Len(log) < MaxRequests
    /\ output' = res
    /\ log' = Append(log, [endpoint |-> endpoint, res |-> res])
    /\ UNCHANGED <<tz, clock, rawFiles, syncStateFile, sync>>

\* PUT /api/journals/:date with body { content }
PutJournal(date, content, throws) ==
    /\ IF content = ""
       THEN respond("PUT /api/journals/:date", json(400, [error |-> "Content is required"]))
       ELSE IF findJournal(journalFiles, date) = <<>>
       THEN respond("PUT /api/journals/:date", json(404, [error |-> "Journal not found"]))
       ELSE IF throws
       THEN respond("PUT /api/journals/:date", caught)
       ELSE respond("PUT /api/journals/:date",
                    json(200, [id |-> date, date |-> date, content |-> content,
                               size |-> Len(content), modified |-> clock,
                               message |-> "Journal updated successfully"]))
    /\ journalFiles' = IF output'.status = 200
                       THEN (findJournal(journalFiles, date) :> content) @@ journalFiles
                       ELSE journalFiles
    /\ UNCHANGED input

\* POST /api/sync: the sync command is spawned and its exit code answered.
PostSync(throws, code) ==
    /\ respond("POST /api/sync",
               IF throws THEN caught
               ELSE onClose(code, "Sync completed successfully", "Sync failed"))
    /\ UNCHANGED <<journalFiles, input>>

\* POST /api/run: the token check, the guard against a future startDate, then
\* either the run command (one day) or sync followed by generate.
PostRun(tokenValid, future, throws, days, code, genCode) ==
    /\ respond("POST /api/run",
          IF throws THEN caught
          ELSE IF ~tokenValid
          THEN json(400, [success |-> FALSE,
                          message |-> "Google Calendar token expired or invalid. Please refresh your token.",
                          needsTokenRefresh |-> TRUE])
          ELSE IF future
          THEN json(400, [success |-> FALSE, message |-> "Cannot sync future dates"])
          ELSE IF days <= 1
          THEN onClose(code, "Journal update completed", "Journal update failed")
          ELSE IF code # 0
          THEN onClose(code, "", "Sync failed")
          ELSE onClose(genCode, "Journal update completed", "Journal generation failed"))
    /\ UNCHANGED <<journalFiles, input>>

\* POST /api/generate
PostGenerate(throws, code) ==
    /\ respond("POST /api/generate",
               IF throws THEN caught
               ELSE onClose(code, "Journal generation completed",
                            "Journal generation failed"))
    /\ UNCHANGED <<journalFiles, input>>

\* PUT /api/config: the body replaces config.json.
PutConfig(newConfig, throws) ==
    /\ respond("PUT /api/config",
               IF throws THEN caught
               ELSE json(200, [message |-> "Configuration updated successfully",
                               config |-> newConfig]))
    /\ input' = IF throws THEN input ELSE [config |-> newConfig]
    /\ UNCHANGED journalFiles

NextWeb ==
    \/ \E date \in {dateStr(DaysFromCivil(2024, 1, 15)), dateStr(DaysFromCivil(2021, 1, 1))},
          content \in {"", "edited"}, throws \in BOOLEAN :
          PutJournal(date, content, throws)
    \/ \E throws \in BOOLEAN, code \in {0, 1} : PostSync(throws, code)
    \/ \E tokenValid \in BOOLEAN, future \in BOOLEAN, throws \in BOOLEAN,
          days \in {1, 2}, code \in {0, 1}, genCode \in {0, 1} :
          PostRun(tokenValid, future, throws, days, code, genCode)
    \/ \E throws \in BOOLEAN, code \in {0, 1} : PostGenerate(throws, code)
    \/ \E newConfig \in {"edited", "other"}, throws \in BOOLEAN :
          PutConfig(newConfig, throws)

SpecWeb == InitWeb /\ [][NextWeb]_vars

\* C15 as the specification states it: every response of a mutating endpoint,
\* on success and on every failure path, is an object with a boolean success
\* field and a message field.
C15_MutatingResponsesHaveSuccessAndMessage ==
    \A n \in 1..Len(log) :
        /\ {"success", "message"} \subseteq DOMAIN log[n].res.body
        /\ log[n].res.body.success \in BOOLEAN

\* C16 as the specification states it: whatever file name a report command
\* saves under, the one file written lies beneath reports/<kind>/<year>/ and
\* every file that was there before, the journals in particular, is unchanged.
C16_ReportLeavesJournalsAlone ==
    \A n \in CallsOf("saveReport") :
        /\ startsWith(log[n].ret,
                join(join(join(PathText.reports, PathText.weekly),
                          toString(getYear(format(log[n].date)))), <<>>))
        /\ \A q \in DOMAIN log[n].before :
               split(q)[1] = PathText.daily =>
                   q \in DOMAIN log[n].after /\ log[n].after[q] = log[n].before[q]

----------------------------------------------------------------------------
(* The configuration manager: mergeConfigs, get and set (SpecConfig) *)

\* A JSON value: its kind, the text of a primitive, and its own enumerable
\* properties (the members of an object, the elements of an array under
\* their indices, the characters of a string).
JPrimitive(kind, val) == [kind |-> kind, val |-> val, fields |-> Empty]
JObject(fields) == [kind |-> "object", val |-> "", fields |-> fields]
JUndefined == JPrimitive("undefined", "")
JValues ==
    [ five |-> JPrimitive("number", "5"),
      null |-> JPrimitive("null", ""),
      text |-> [kind |-> "string", val |-> "ab",
                fields |-> ("0" :> JPrimitive("string", "a"))
                               @@ ("1" :> JPrimitive("string", "b"))],
      array |-> [kind |-> "array", val |-> "",
                 fields |-> ("0" :> JPrimitive("string", "random"))],
      seven |-> JPrimitive("number", "7") ]

\* !value
falsy(value) ==
    \/ value.kind \in {"null", "undefined"}
    \/ value.kind \in {"number", "string"} /\ value.val \in {"0", ""}
    \/ value.kind = "boolean" /\ value.val = "false"

\* obj[k] (obj?.[k] when obj is null or undefined)
member(obj, k) == IF k \in DOMAIN obj.fields THEN obj.fields[k] ELSE JUndefined

\* (faulty variant: a shallow merge, the user's members replace the default's)
mergeConfigsShallow(defaultConf, userConf) ==
    JObject(userConf.fields @@ defaultConf.fields)

\* mergeConfigs(defaultConf, userConf)
RECURSIVE mergeConfigs(_, _)
mergeConfigs(defaultConf, userConf) ==
    JObject([key \in DOMAIN defaultConf.fields \cup DOMAIN userConf.fields |->
        IF key \notin DOMAIN userConf.fields THEN defaultConf.fields[key]
        ELSE IF userConf.fields[key].kind = "object"
        THEN mergeConfigs(IF falsy(member(defaultConf, key)) THEN JObject(Empty)
                          ELSE defaultConf.fields[key],
                          userConf.fields[key])
        ELSE userConf.fields[key]])

\* get(key), the key already split at the dots.
RECURSIVE get(_, _)
get(config, keys) ==
    IF keys = <<>> THEN config ELSE get(member(config, Head(keys)), Tail(keys))

\* set(key, value) on the object obj, the key already split at the dots: the
\* object after the call, or a TypeError when a property is created on a
\* primitive (the file is an ES module, hence strict code).
RECURSIVE set(_, _, _)
set(obj, keys, value) ==
    IF obj.kind \notin {"object", "array"} THEN Threw
    ELSE IF Len(keys) = 1
    THEN Returned([obj EXCEPT !.fields = (keys[1] :> value) @@ @])
    ELSE IF set(IF falsy(member(obj, Head(keys))) THEN JObject(Empty)
                ELSE obj.fields[Head(keys)], Tail(keys), value).threw
    THEN Threw
    ELSE Returned([obj EXCEPT !.fields =
            (Head(keys) :> set(IF falsy(member(obj, Head(keys))) THEN JObject(Empty)
                               ELSE obj.fields[Head(keys)], Tail(keys), value).ret) @@ @])

\* The objects a configuration file may hold under one key.
InnerConfs ==
    {JObject(f) : f \in UNION {[S -> {JValues.five, JValues.null}] : S \in SUBSET {"a", "b"}}}

\* The default configuration and the user's file.
Configs ==
    {JObject(f) : f \in UNION {[S -> {JValues.five}] : S \in SUBSET {"b"}}}
        \cup {JObject(f @@ ("a" :> x)) :
                 f \in UNION {[S -> {JValues.five}] : S \in SUBSET {"b"}},
                 x \in InnerConfs \cup {JValues.five, JValues.null, JValues.text, JValues.array}}

\* The dotted paths the manager is asked for, split at the dots.
ConfigPaths ==
    {<<"a">>, <<"b">>, <<"a", "a">>, <<"a", "b">>, <<"b", "a">>, <<"a", "b", "a">>}

\* input is the default object and the user's file; output is this.config,
\* Pending before load; log is the calls made.
InitConfig ==
    /\ tz = 0
    /\ clock = 0
    /\ rawFiles = Empty
    /\ syncStateFile = MissingFile
    /\ sync = IdleSync
    /\ journalFiles = Empty
    /\ log = <<>>
    /\ \E defaultConf \in Configs, userConf \in Configs :
          input = [defaultConf |-> defaultConf, userConf |-> userConf]
    /\ output = Pending

\* load(): the user's file merged over the defaults.
CallLoad ==
    /\ output = Pending
    /\ output' = mergeConfigs(input.defaultConf, input.userConf)
    /\ log' = Append(log, [op |-> "load", defaultConf |-> input.defaultConf,
                           userConf |-> input.userConf, ret |-> output'])
    /\ UNCHANGED <<tz, clock, rawFiles, syncStateFile, sync, journalFiles, input>>

\* set(key, value) on the loaded configuration.
CallSet(keys, value) ==
    /\ output # Pending /\ log[Len(log)].op = "load"
    /\ output' = IF set(output, keys, value).threw THEN output
                 ELSE set(output, keys, value).ret
    /\ log' = Append(log, [op |-> "set", keys |-> keys, value |-> value,
                           threw |-> set(output, keys, value).threw,
                           before |-> output, after |-> output'])
    /\ UNCHANGED <<tz, clock, rawFiles, syncStateFile, sync, journalFiles, input>>

\* get(key) after a set.
CallGet(keys) ==
    /\ output # Pending /\ log[Len(log)].op = "set"
    /\ log' = Append(log, [op |-> "get", keys |-> keys, ret |-> get(output, keys)])
    /\ UNCHANGED <<tz, clock, rawFiles, syncStateFile, sync, journalFiles, input, output>>

NextConfig ==
    \/ CallLoad
    \/ \E keys \in ConfigPaths, value \in {JValues.seven, JObject("a" :> JValues.five)} :
          CallSet(keys, value)
    \/ \E keys \in ConfigPaths : CallGet(keys)

SpecConfig == InitConfig /\ [][NextConfig]_vars

\* The key paths at which a merge is observed.
MergePaths ==
    {<<>>} \cup UNION {[1..n -> {"a", "b", "0"}] : n \in {1, 2}}

\* The user's file holds an object at every proper prefix of the path p.
UserObjectsAbove(userConf, p) ==
    \A n \in 0..(Len(p) - 1) : get(userConf, SubSeq(p, 1, n)).kind = "object"

\* C17: at every key path that the user's file does not cut off above, the
\* merged configuration holds the user's value when it is a scalar, null or
\* an array, the default's value when the user's file does not define the
\* path, and an object with the keys of both sides when the user gives an
\* object; the default object is what it was before the call.
C17_MergeConfigsDeepMerges ==
    \A n \in CallsOf("load") : \A p \in MergePaths :
        UserObjectsAbove(log[n].userConf, p) =>
            /\ get(log[n].userConf, p).kind \notin {"object", "undefined"} =>
                   get(log[n].ret, p) = get(log[n].userConf, p)
            /\ get(log[n].userConf, p).kind = "undefined" =>
                   get(log[n].ret, p) = get(log[n].defaultConf, p)
            /\ get(log[n].userConf, p).kind = "object" =>
                   /\ get(log[n].ret, p).kind = "object"
                   /\ DOMAIN get(log[n].ret, p).fields =
                          DOMAIN get(log[n].userConf, p).fields
                              \cup DOMAIN get(log[n].defaultConf, p).fields
            /\ input.defaultConf = log[n].defaultConf

\* A load that merged two objects under "a" key-wise: the default's member
\* "a.b" and the user's member "a.a" are both in the result.
C17_Witness ==
    /\ CallsOf("load") # {}
    /\ get(input.defaultConf, <<"a", "b">>) = JValues.five
    /\ get(input.defaultConf, <<"a", "a">>) = JUndefined
    /\ get(input.userConf, <<"a", "a">>) = JValues.null
    /\ get(input.userConf, <<"a", "b">>) = JUndefined
    /\ get(output, <<"a", "b">>) = JValues.five
    /\ get(output, <<"a", "a">>) = JValues.null

\* Neither path is a prefix of the other.
Unrelated(p, q) ==
    \E i \in 1..Len(p) : i <= Len(q) /\ p[i] # q[i]
        /\ \A j \in 1..(i - 1) : p[j] = q[j]

\* C18 as the specification states it: after load, set(p, v) makes get(p)
\* return v and leaves get(q) unchanged for every path q that is neither a
\* prefix nor an extension of p, also when an intermediate key of p holds a
\* scalar.
C18_SetThenGet ==
    \A n \in CallsOf("set") :
        /\ ~log[n].threw
        /\ get(log[n].after, log[n].keys) = log[n].value
        /\ \A q \in ConfigPaths :
               Unrelated(log[n].keys, q) =>
                   get(log[n].after, q) = get(log[n].before, q)

----------------------------------------------------------------------------
(* Google Calendar connector: the calendar filter (SpecCalendars) *)

\* Calendar names and ids, and the entries of the three lists.
CalendarText ==
    [ work |-> <<87, 111, 114, 107>>,
          \* "Work"
      teamPto |-> <<84, 101, 97, 109, 32, 80, 84, 79>>,
          \* "Team PTO"
      holidays |-> <<72, 111, 108, 105, 100, 97, 121, 115>>,
          \* "Holidays"
      team |-> <<116, 101, 97, 109>>,
          \* "team"
      pto |-> <<112, 116, 111>>,
          \* "pto"
      ptoGlob |-> <<42, 112, 116, 111, 42>>,
          \* "*pto*"
      workId |-> <<119, 111, 114, 107, 64, 120>>,
          \* "work@x"
      teamId |-> <<116, 49, 64, 120>>,
          \* "t1@x"
      holidaysId |-> <<104, 64, 120>> ]
          \* "h@x"

\* The predicate of calendars.filter(...) under this.config.
retainsCalendar(config, calendar) ==
    IF /\ config.includeCalendars # <<>>
       /\ ~\E k \in 1..Len(config.includeCalendars) :
              \/ includes(toLowerCase(calendar.summary),
                          toLowerCase(config.includeCalendars[k]))
              \/ includes(toLowerCase(calendar.id), toLowerCase(config.includeCalendars[k]))
              \/ calendar.id = config.includeCalendars[k]
              \/ calendar.summary = config.includeCalendars[k]
    THEN FALSE
    ELSE IF \E k \in 1..Len(config.excludeCalendars) :
              \/ includes(toLowerCase(calendar.summary),
                          toLowerCase(config.excludeCalendars[k]))
              \/ includes(toLowerCase(calendar.id), toLowerCase(config.excludeCalendars[k]))
    THEN FALSE
    ELSE IF \E k \in 1..Len(config.excludeCalendarPatterns) :
              \/ test(RegExp(replace(config.excludeCalendarPatterns[k],
                                     SlackText.star, SlackText.dotStar)),
                      toLowerCase(calendar.summary))
              \/ test(RegExp(replace(config.excludeCalendarPatterns[k],
                                     SlackText.star, SlackText.dotStar)),
                      toLowerCase(calendar.id))
    THEN FALSE
    ELSE TRUE

\* filterCalendars(calendars)
filterCalendars(config, calendars) ==
    SelectSeq(calendars, LAMBDA calendar : retainsCalendar(config, calendar))

\* The calendars of the account.
Calendars ==
    { [summary |-> CalendarText.work, id |-> CalendarText.workId],
      [summary |-> CalendarText.teamPto, id |-> CalendarText.teamId],
      [summary |-> CalendarText.holidays, id |-> CalendarText.holidaysId] }

InitCalendars ==
    /\ tz = 0 /\ clock = 0
    /\ rawFiles = Empty /\ syncStateFile = MissingFile
    /\ sync = IdleSync /\ log = <<>>
    /\ journalFiles = Empty
    /\ \E includeCalendars \in {<<>>, <<CalendarText.team>>, <<CalendarText.work>>},
          excludeCalendars \in {<<>>, <<CalendarText.pto>>},
          excludeCalendarPatterns \in {<<>>, <<CalendarText.ptoGlob>>},
          calendars \in UNION {[1..n -> Calendars] : n \in {0, 1, 2}} :
          input = [config |-> [includeCalendars |-> includeCalendars,
                               excludeCalendars |-> excludeCalendars,
                               excludeCalendarPatterns |-> excludeCalendarPatterns],
                   calendars |-> calendars]
    /\ output = Pending

CallFilterCalendars ==
    /\ output = Pending
    /\ output' = [ret |-> filterCalendars(input.config, input.calendars)]
    /\ UNCHANGED <<tz, clock, rawFiles, syncStateFile, sync, log, journalFiles, input>>

NextCalendars == CallFilterCalendars

SpecCalendars == InitCalendars /\ [][NextCalendars]_vars

\* The calendar matches an entry of a list: its lower-cased name or id
\* contains the lower-cased entry.
MatchesEntry(list, calendar) ==
    \E k \in 1..Len(list) :
        \/ includes(toLowerCase(calendar.summary), toLowerCase(list[k]))
        \/ includes(toLowerCase(calendar.id), toLowerCase(list[k]))

\* The calendar's lower-cased name or id matches a pattern of the list.
MatchesPattern(list, calendar) ==
    \E k \in 1..Len(list) :
        \E str \in {toLowerCase(calendar.summary), toLowerCase(calendar.id)} :
            test(RegExp(replace(list[k], SlackText.star, SlackText.dotStar)), str)

\* C19 as the specification states it: with a non-empty includeCalendars a
\* calendar is retained exactly when it matches an include entry, whatever
\* the exclude list and the exclude patterns hold; with an empty one, exactly
\* when it matches no exclude entry and no exclude pattern.
C19_IncludeListOrExcludeLists ==
    output # Pending =>
        \A i \in 1..Len(input.calendars) :
            arrayIncludes(output.ret, input.calendars[i]) <=>
                IF input.config.includeCalendars # <<>>
                THEN MatchesEntry(input.config.includeCalendars, input.calendars[i])
                ELSE /\ ~MatchesEntry(input.config.excludeCalendars, input.calendars[i])
                     /\ ~MatchesPattern(input.config.excludeCalendarPatterns,
                                        input.calendars[i])

----------------------------------------------------------------------------
(* Jira connector: the activities of a day (SpecJira) *)

\* Ticket keys, project keys and the default exclusion pattern.
JiraText ==
    [ testGlob |-> <<84, 69, 83, 84, 45, 42>>,
          \* "TEST-*"
      test |-> <<84, 69, 83, 84>>,
          \* "TEST"
      test1 |-> <<84, 69, 83, 84, 45, 49>>,
          \* "TEST-1"
      ops |-> <<79, 80, 83>>,
          \* "OPS"
      ops7 |-> <<79, 80, 83, 45, 55>> ]
          \* "OPS-7"

\* The record getActivitiesForDate pushes for a ticket.
JiraActivity(timestamp, type, ticket) ==
    [timestamp |-> timestamp, type |-> type, ticketKey |-> ticket.key,
     project |-> ticket.project]

\* activities.sort((a, b) => new Date(a.timestamp) - new Date(b.timestamp)):
\* a stable sort, here by insertion from the left.
RECURSIVE sortByTimestamp(_)
sortByTimestamp(activities) ==
    IF Len(activities) <= 1 THEN activities
    ELSE LET rest == sortByTimestamp(SubSeq(activities, 1, Len(activities) - 1))
             last == activities[Len(activities)]
             before == SelectSeq(rest, LAMBDA a : a.timestamp <= last.timestamp)
             after == SelectSeq(rest, LAMBDA a : a.timestamp > last.timestamp)
         IN  before \o <<last>> \o after

\* getActivitiesForDate(date), given what the three searches return: a ticket
\* the user created, one updated with a change of that day, one with a
\* comment of the user.
getActivitiesForDate(created, updated, commented) ==
    sortByTimestamp(
        [i \in 1..Len(created) |->
            JiraActivity(created[i].created, "ticket_created", created[i])]
        \o [i \in 1..Len(updated) |->
            JiraActivity(updated[i].changed, "ticket_updated", updated[i])]
        \o [i \in 1..Len(commented) |->
            JiraActivity(commented[i].changed, "comment_added", commented[i])])

\* The tickets the searches of local day 1 may return.
JiraTickets ==
    { [key |-> JiraText.test1, project |-> JiraText.test, created |-> 27, changed |-> 45],
      [key |-> JiraText.ops7, project |-> JiraText.ops, created |-> 30, changed |-> 33] }

InitJira ==
    /\ tz = 0 /\ clock = 0
    /\ rawFiles = Empty /\ syncStateFile = MissingFile
    /\ sync = IdleSync /\ log = <<>>
    /\ journalFiles = Empty
    /\ \E excludeProjects \in {<<>>, <<JiraText.ops>>},
          excludeProjectPatterns \in {<<>>, <<JiraText.testGlob>>},
          created \in UNION {[1..n -> JiraTickets] : n \in {0, 1, 2}},
          updated \in UNION {[1..n -> JiraTickets] : n \in {0, 1}},
          commented \in UNION {[1..n -> JiraTickets] : n \in {0, 1}} :
          input = [config |-> [excludeProjects |-> excludeProjects,
                               excludeProjectPatterns |-> excludeProjectPatterns],
                   created |-> created, updated |-> updated, commented |-> commented]
    /\ output = Pending

\* sync(startDate, endDate) over the one local day 1: the day's activities are
\* saved when there are any and counted in the sync state.
CallJiraSync ==
    /\ output = Pending
    /\ output' = [ret |-> getActivitiesForDate(input.created, input.updated,
                                                input.commented)]
    /\ clock' = clock + 1
    /\ rawFiles' = IF output'.ret = <<>> THEN rawFiles
                   ELSE saveRawData(rawFiles, "jira", ObjDate(24 + 12),
                                    ArrayArg(output'.ret), clock')
    /\ syncStateFile' = setSyncState(syncStateFile, "jira",
                             [lastSyncDate |-> 24 + 12,
                              totalActivities |-> Len(output'.ret)], clock')
    /\ UNCHANGED <<tz, sync, log, journalFiles, input>>

NextJira == CallJiraSync

SpecJira == InitJira /\ [][NextJira]_vars

\* The activity belongs to a project that the configuration excludes: its
\* project is listed in excludeProjects, or its ticket key or project matches
\* a pattern of excludeProjectPatterns.
JiraExcluded(config, activity) ==
    \/ arrayIncludes(config.excludeProjects, activity.project)
    \/ \E k \in 1..Len(config.excludeProjectPatterns) :
          \E str \in {activity.project, activity.ticketKey} :
              test(RegExp(replace(config.excludeProjectPatterns[k],
                                  SlackText.star, SlackText.dotStar)), str)

\* C20 as the specification states it: no activity that the Jira sync stores
\* belongs to an excluded project, and the count it records is that of the
\* activities of the projects that are not excluded.
C20_JiraAppliesExclusions ==
    output # Pending =>
        /\ \A file \in DOMAIN rawFiles :
               \A i \in 1..Len(rawFiles[file].data) :
                   ~JiraExcluded(input.config, rawFiles[file].data[i])
        /\ getSyncState(syncStateFile, "jira").totalActivities =
               Len(SelectSeq(output.ret, LAMBDA a : ~JiraExcluded(input.config, a)))

----------------------------------------------------------------------------
(* One writer per raw-data file within a sync *)

C22_StoredUnderLocalDay ==
    sync.pc # "idle" =>
        \A k \in 1..Len(sync.saved) : \A i \in 1..Len(sync.saved[k][2]) :
            /\ sync.saved[k][1]
                   = <<sync.integration, format(sync.saved[k][2][i].timestamp)>>
            /\ getRawData(rawFiles, sync.integration,
                          ObjDate(sync.saved[k][2][i].timestamp)) # Null
            /\ sync.saved[k][2][i] \in
                   Elems(getRawData(rawFiles, sync.integration,
                                    ObjDate(sync.saved[k][2][i].timestamp)).data)

----------------------------------------------------------------------------
(* Two processes writing the sync-state file (SpecRace) *)

\* Each POST /api/sync spawns a process; the two processes here each end the
\* sync of one integration with setSyncState.  output is the process table:
\* where each process stands in setSyncState and the object it read.
InitRace ==
    /\ tz \in TZOffsets
    /\ clock = 0
    /\ rawFiles = Empty
    /\ syncStateFile \in {MissingFile, CorruptFile,
                           PriorState("jira", {1}), PriorState("slack", {1})}
    /\ sync = IdleSync
    /\ log = <<>>
    /\ journalFiles = Empty
    /\ input \in [{"slack", "github"} -> {[totalActivities |-> 1], [totalActivities |-> 2]}]
    /\ output = [p \in {"slack", "github"} |-> [pc |-> "read", currentState |-> Empty]]

\* setSyncState, line 79: const currentState = await this.getSyncState()
ProcRead(p) ==
    /\ output[p].pc = "read"
    /\ output' = [output EXCEPT
            ![p] = [pc |-> "write", currentState |-> getSyncStateAll(syncStateFile)]]
    /\ UNCHANGED <<tz, clock, rawFiles, syncStateFile, log, sync, journalFiles, input>>

\* setSyncState, lines 80-87: the record is merged into the object that was
\* read and the whole object is written.
ProcWrite(p) ==
    /\ output[p].pc = "write"
    /\ clock' = clock + 1
    /\ syncStateFile' = setSyncState(JsonFile(output[p].currentState), p, input[p], clock')
    /\ output' = [output EXCEPT ![p].pc = "done"]
    /\ log' = Append(log, p)
    /\ UNCHANGED <<tz, rawFiles, sync, journalFiles, input>>

NextRace ==
    \/ \E p \in {"slack", "github"} : ProcRead(p)
    \/ \E p \in {"slack", "github"} : ProcWrite(p)

SpecRace == InitRace /\ [][NextRace]_vars

\* C23 as the specification states it: under every interleaving of the two
\* processes, once both setSyncState calls are over the file holds the
\* records of both integrations (and every record it held before).
C23_NoRecordLost ==
    (\A p \in {"slack", "github"} : output[p].pc = "done") =>
        /\ {"slack", "github"} \subseteq DOMAIN getSyncStateAll(syncStateFile)
        /\ \A p \in {"slack", "github"} :
               getSyncState(syncStateFile, p).totalActivities = input[p].totalActivities

----------------------------------------------------------------------------
(* The order of the connectors in `sync` and `run` (SpecCLI) *)

\* The calls of one kind in the command's log, in order.
LogOf(op) == SelectSeq(log, LAMBDA e : e.op = op)

\* The place of a connector in the order Slack, GitHub, Google Calendar, Jira.
Rank(i) == CASE i = "slack" -> 1 [] i = "github" -> 2 [] i = "gcal" -> 3 [] i = "jira" -> 4

\* The connectors the command line and the config select.
Selected == {i \in input.enabled : input.integration \in {"", i}}

\* C24: the connectors called are selected ones, called in the order Slack,
\* GitHub, Google Calendar, Jira with none skipped; a sync is called only when
\* every earlier call has returned; after a sync that threw, no connector is
\* called, nothing is generated and the process has exited with 1; `run`
\* generates only when every selected connector's sync has returned.
C24_ConnectorsInOrderOneAtATime ==
    LET calls == LogOf("sync")
        settled == LogOf("sync.settled")
    IN  /\ \A k \in 1..Len(calls) :
              /\ calls[k].integration \in Selected
              /\ \A i \in Selected :
                    Rank(i) < Rank(calls[k].integration) =>
                        \E j \in 1..(k - 1) : calls[j].integration = i
              /\ \A j \in 1..(k - 1) :
                    Rank(calls[j].integration) < Rank(calls[k].integration)
        /\ \A n \in 1..Len(log) :
              log[n].op = "sync" =>
                  LET before == SelectSeq(SubSeq(log, 1, n - 1),
                                          LAMBDA e : e.op \in {"sync", "sync.settled"})
                  IN  /\ Len(before) % 2 = 0
                      /\ \A j \in 1..Len(before) :
                            /\ before[j].op = (IF j % 2 = 1 THEN "sync" ELSE "sync.settled")
                            /\ j % 2 = 0 => before[j].ret
                                            /\ before[j].integration = before[j - 1].integration
        /\ \A n \in 1..Len(log) :
              (log[n].op = "sync.settled" /\ ~log[n].ret) =>
                  /\ n = Len(log)
                  /\ output.pc = "exit1"
        /\ \A n \in 1..Len(log) :
              log[n].op = "generate" =>
                  /\ input.command = "run"
                  /\ \A i \in Selected :
                        \E j \in 1..(n - 1) :
                            /\ log[j].op = "sync.settled" /\ log[j].ret
                            /\ log[j].integration = i

\* A `run` over all four connectors that synced them and went on to generate.
C24_Witness ==
    /\ input.command = "run" /\ input.integration = ""
    /\ input.enabled = Integrations
    /\ Len(LogOf("sync.settled")) = 4
    /\ Len(LogOf("generate")) = 1

\* A `sync` whose second connector threw: the process ended with 1 there.
C24_WitnessThrow ==
    /\ input.command = "sync" /\ input.enabled = Integrations
    /\ Len(LogOf("sync")) = 2 /\ ~log[Len(log)].ret
    /\ output.pc = "exit1"

----------------------------------------------------------------------------
(* The paginated search of one day's messages (SpecSearch) *)

maxPages == 5    \* const maxPages = 5

\* const count = Math.min(this.config.maxMessages || 100, 100); a maxMessages
\* of 0 stands for an unset one.
count(maxMessages) ==
    LET wanted == IF maxMessages = 0 THEN 100 ELSE maxMessages
    IN  IF wanted < 100 THEN wanted ELSE 100

\* (faulty variant: only an empty page or the cap ends the loop)
morePagesUntilEmpty(matches, size, page) == page + 1 <= maxPages

\* After a page with matches: the loop goes on when the page was full and the
\* next page number passes the `while` test.
morePages(matches, size, page) == ~(matches < size) /\ page + 1 <= maxPages

\* The search of a day has not started; no day is searched yet.
\* input: maxMessages of the Slack config and the last day of the range;
\* output: the sync loop (pc, day, page, allMessages as the number of matches
\* of every page pushed, results: what searchUserMessages returned per day);
\* log: the search.messages requests made.
InitSearch ==
    /\ tz = 0
    /\ clock = 0
    /\ rawFiles = Empty
    /\ syncStateFile = MissingFile
    /\ sync = IdleSync
    /\ journalFiles = Empty
    /\ log = <<>>
    /\ \E maxMessages \in {0, 2, 150}, lastDay \in Days :
          input = [maxMessages |-> maxMessages, lastDay |-> lastDay]
    /\ output = [pc |-> "day", day |-> 1, page |-> 1, allMessages |-> <<>>,
                 results |-> <<>>]

\* The sync loop calls searchUserMessages for the current day: page = 1,
\* allMessages = []. After the last day the loop is over.
SearchBegin ==
    /\ output.pc = "day"
    /\ output' = IF output.day <= input.lastDay
                 THEN [output EXCEPT !.pc = "page", !.page = 1, !.allMessages = <<>>]
                 ELSE [output EXCEPT !.pc = "done"]
    /\ UNCHANGED <<tz, clock, rawFiles, syncStateFile, sync, journalFiles, input, log>>

\* What searchUserMessages returns to the sync loop, which goes to the next day.
searchReturns(out, pages, replies) ==
    [out EXCEPT !.pc = "day", !.day = @ + 1, !.allMessages = pages,
                !.results = Append(@, [pages |-> pages, replies |-> replies])]

\* One pass of the `while (page <= maxPages)` loop: the request for the page
\* is answered with `matches` matches or fails. A failure is caught by the
\* function's catch, which returns []. When the loop ends, getThreadReplies
\* adds the user's replies of the threads it could fetch.
SearchPage(matches, ok, replies) ==
    /\ output.pc = "page"
    /\ matches <= count(input.maxMessages)
    /\ log' = Append(log, [day |-> output.day, page |-> output.page,
                           matches |-> matches, ok |-> ok])
    /\ output' =
         IF ~ok THEN searchReturns(output, <<>>, 0)
         ELSE IF matches = 0 THEN searchReturns(output, output.allMessages, replies)
         ELSE IF morePages(matches, count(input.maxMessages), output.page)
              THEN [output EXCEPT !.page = @ + 1,
                                  !.allMessages = Append(@, matches)]
              ELSE searchReturns(output, Append(output.allMessages, matches), replies)
    /\ UNCHANGED <<tz, clock, rawFiles, syncStateFile, sync, journalFiles, input>>

NextSearch ==
    \/ SearchBegin
    \/ \E matches \in {0, 1, 2, 100}, ok \in BOOLEAN, replies \in {0, 1} :
          SearchPage(matches, ok, replies)

\* Every awaited request and timer settles, so the loop always takes its next step.
SpecSearch == InitSearch /\ [][NextSearch]_vars /\ WF_vars(NextSearch)

\* The requests made for a day, in order.
RequestsOf(day) == SelectSeq(log, LAMBDA r : r.day = day)

\* C25: for every day the requests carry the pages 1, 2, ... in order, there
\* are at most 5 of them, only the last one may have failed, come back empty
\* or come back with fewer matches than the page size; and the search of
\* every day ends.
C25_AtMostFiveConsecutivePages ==
    /\ [](\A day \in Days :
            LET reqs == RequestsOf(day)
            IN  /\ Len(reqs) <= 5
                /\ \A k \in 1..Len(reqs) :
                      /\ reqs[k].page = k
                      /\ k < Len(reqs) =>
                            /\ reqs[k].ok
                            /\ reqs[k].matches = count(input.maxMessages))
    /\ <>(output.pc = "done" /\ Len(output.results) = input.lastDay)

\* A day whose five pages were all full: the search stopped at the cap.
C25_Witness ==
    /\ Len(RequestsOf(1)) = 5
    /\ \A k \in 1..5 : RequestsOf(1)[k].ok /\ RequestsOf(1)[k].matches = 100
    /\ Len(output.results) >= 1

\* C26: when a page request of a day failed, the messages of the pages
\* fetched before it for that day are what searchUserMessages returned, and
\* the sync loop went on to the next day.
C26_FailedPageKeepsEarlierPages ==
    \A day \in 1..Len(output.results) :
        LET reqs == RequestsOf(day)
        IN  (reqs # <<>> /\ ~reqs[Len(reqs)].ok) =>
                /\ output.results[day].pages =
                      [k \in 1..(Len(reqs) - 1) |-> reqs[k].matches]
                /\ output.day > day

----------------------------------------------------------------------------
(* The fallback of categorizeActivities (SpecAI) *)

\* C27: when the model call or the parsing of its answer failed, and
\* categorizeWork is on, the result has the three keys Communication,
\* Development and Meetings, holding the slack, github and gcal activities,
\* and every activity of the input is in exactly one of them.
C27_FallbackBucketsHoldEveryActivity ==
    \A n \in 1..Len(log) :
        (/\ log[n].op = "categorizeActivities"
         /\ log[n].categorizeWork
         /\ log[n].api # "ok") =>
            /\ DOMAIN log[n].out = {"Communication", "Development", "Meetings"}
            /\ \A i \in 1..Len(input.activities) :
                  Cardinality({k \in DOMAIN log[n].out :
                                  \E j \in 1..Len(log[n].out[k]) :
                                      log[n].out[k][j] = input.activities[i]}) = 1

----------------------------------------------------------------------------
(* Reading a journal back (SpecJournal) *)

\* The nested-layout file of a date: the path saveJournal writes it to.
NestedFile(date) == saveJournal(Empty, ObjDate(date), "").ret

\* The legacy flat file of a date: <local day>.md in the output directory.
FlatFile(date) == dateStr(format(date)) \o PathText.dotMd

\* C28: getJournal(d) returns the content of the nested file of d when the
\* directory holds it, else the content of the flat file of d when the
\* directory holds that, else null; right after saveJournal(d, c) it
\* returns c, whether or not a flat file of d exists.
C28_NestedThenLegacyThenNull ==
    \A n \in CallsOf("getJournal") :
        LET d == log[n].date
            files == log[n].before
        IN  /\ NestedFile(d) \in DOMAIN files => log[n].ret = files[NestedFile(d)]
            /\ (NestedFile(d) \notin DOMAIN files /\ FlatFile(d) \in DOMAIN files) =>
                   log[n].ret = files[FlatFile(d)]
            /\ (NestedFile(d) \notin DOMAIN files /\ FlatFile(d) \notin DOMAIN files) =>
                   log[n].ret = Null
            /\ (n > 1 /\ log[n - 1].op = "saveJournal" /\ log[n - 1].date = d) =>
                   log[n].ret = log[n - 1].content

\* saveJournal(d, c) then getJournal(d) in a directory that also holds the
\* legacy flat file of d, whose content differs from c.
C28_Witness ==
    /\ Len(log) = 2
    /\ log[1].op = "saveJournal" /\ log[2].op = "getJournal"
    /\ log[1].date = log[2].date
    /\ FlatFile(log[2].date) \in DOMAIN log[2].before
    /\ log[2].before[FlatFile(log[2].date)] # log[1].content
    /\ log[2].ret = log[1].content

\* getJournal(d) answered from the legacy flat file.
C28_WitnessLegacy ==
    /\ Len(log) >= 1 /\ log[1].op = "getJournal"
    /\ NestedFile(log[1].date) \notin DOMAIN log[1].before
    /\ FlatFile(log[1].date) \in DOMAIN log[1].before

----------------------------------------------------------------------------
(* Migration never overwrites (SpecJournal) *)

\* The flat files of a directory that migrateExistingJournals has a place for.
Migratable(files) ==
    {file \in DOMAIN files : Len(split(file)) = 1 /\ migrateTarget(file) # Null}

\* C29: a migration leaves every file of the nested layout as it was; a flat
\* file whose destination exists stays where it was; every other flat file it
\* has a place for is moved; the count returned is the number of files moved;
\* and a run that follows a run in which no destination existed moves nothing
\* and returns 0.
C29_MigrationNeverOverwrites ==
    \A n \in CallsOf("migrateExistingJournals") :
        LET before == log[n].before
            after == log[n].after
        IN  /\ \A p \in DOMAIN before :
                  Len(split(p)) > 1 => p \in DOMAIN after /\ after[p] = before[p]
            /\ \A file \in Migratable(before) :
                  IF migrateTarget(file) \in DOMAIN before
                  THEN file \in DOMAIN after /\ after[file] = before[file]
                  ELSE /\ file \notin DOMAIN after
                       /\ migrateTarget(file) \in DOMAIN after
                       /\ after[migrateTarget(file)] = before[file]
            /\ log[n].ret = Cardinality(DOMAIN before \ DOMAIN after)
            /\ (/\ n > 1
                /\ log[n - 1].op = "migrateExistingJournals"
                /\ \A file \in Migratable(log[n - 1].before) :
                      migrateTarget(file) \notin DOMAIN log[n - 1].before) =>
                   log[n].ret = 0 /\ after = before

\* A migration in which the destination of one legacy file existed, with
\* another content, and another legacy file was moved.
C29_Witness ==
    \E n \in CallsOf("migrateExistingJournals") :
        /\ log[n].ret >= 1
        /\ \E file \in Migratable(log[n].before) :
              /\ migrateTarget(file) \in DOMAIN log[n].before
              /\ log[n].before[migrateTarget(file)] # log[n].before[file]

\* A second run right after a run that moved files.
C29_WitnessSecondRun ==
    /\ Len(log) = 2
    /\ log[1].op = "migrateExistingJournals" /\ log[1].ret >= 2
    /\ log[2].op = "migrateExistingJournals" /\ log[2].ret = 0

----------------------------------------------------------------------------
(* reset() and the default object (SpecReset) *)

MaxConfigCalls == 4     \* calls made on the manager in one behaviour

\* Values held by reference: a copy of the property shares the value.
byReference(value) == value.kind \in {"object", "array"}

\* this.config as a value. Its members are its own ones and, for the keys it
\* shares with defaultConfig, the objects defaultConfig holds now.
configOf(out) ==
    JObject([k \in out.shared \cup DOMAIN out.own |->
                IF k \in out.shared THEN out.defaultConfig.fields[k] ELSE out.own[k]])

\* input is the default object as shipped; output is the module's
\* defaultConfig object, this.config (null until loaded is true) as its own
\* members and the keys whose objects it shares with defaultConfig; log is
\* the calls made.
InitReset ==
    /\ tz = 0
    /\ clock = 0
    /\ rawFiles = Empty
    /\ syncStateFile = MissingFile
    /\ sync = IdleSync
    /\ journalFiles = Empty
    /\ log = <<>>
    /\ \E a \in {JObject("b" :> JValues.five), JValues.array} :
          input = JObject(("a" :> a) @@ ("b" :> JValues.five))
    /\ output = [defaultConfig |-> input, loaded |-> FALSE, shared |-> {}, own |-> Empty]

\* reset(): this.config = { ...defaultConfig }, a copy of the top level only.
CallReset ==
    /\ Len(log) < MaxConfigCalls
    /\ output' = [output EXCEPT
          !.loaded = TRUE,
          !.shared = {k \in DOMAIN output.defaultConfig.fields :
                         byReference(output.defaultConfig.fields[k])},
          !.own = [k \in {k \in DOMAIN output.defaultConfig.fields :
                             ~byReference(output.defaultConfig.fields[k])} |->
                      output.defaultConfig.fields[k]]]
    /\ log' = Append(log, [op |-> "reset", keys |-> <<>>, ret |-> configOf(output')])
    /\ UNCHANGED <<tz, clock, rawFiles, syncStateFile, sync, journalFiles, input>>

\* set(key, value): the walk from this.config to the target goes through the
\* object under the first key; when that object is shared, the assignment
\* lands in defaultConfig's object.
CallResetSet(keys, value) ==
    /\ Len(log) < MaxConfigCalls /\ output.loaded
    /\ output' =
         IF Len(keys) > 1 /\ Head(keys) \in output.shared
         THEN IF set(output.defaultConfig.fields[Head(keys)], Tail(keys), value).threw
              THEN output
              ELSE [output EXCEPT !.defaultConfig.fields[Head(keys)] =
                       set(output.defaultConfig.fields[Head(keys)], Tail(keys), value).ret]
         ELSE IF set(JObject(output.own), keys, value).threw
              THEN output
              ELSE [output EXCEPT !.shared = @ \ {Head(keys)},
                                  !.own = set(JObject(output.own), keys, value).ret.fields]
    /\ log' = Append(log, [op |-> "set", keys |-> keys, ret |-> value])
    /\ UNCHANGED <<tz, clock, rawFiles, syncStateFile, sync, journalFiles, input>>

\* get(key)
CallResetGet(keys) ==
    /\ Len(log) < MaxConfigCalls /\ output.loaded
    /\ log' = Append(log, [op |-> "get", keys |-> keys,
                           ret |-> get(configOf(output), keys)])
    /\ UNCHANGED <<tz, clock, rawFiles, syncStateFile, sync, journalFiles, input, output>>

NextReset ==
    \/ CallReset
    \/ \E keys \in ConfigPaths : CallResetSet(keys, JValues.seven)
    \/ \E keys \in ConfigPaths : CallResetGet(keys)

SpecReset == InitReset /\ [][NextReset]_vars

\* C30 as the specification states it: after reset(); set(p, v); reset(), a
\* get(p) returns the value of p in the defaults as shipped.
C30_ResetRestoresDefaults ==
    \A n \in 4..Len(log) :
        (/\ log[n].op = "get"
         /\ log[n - 1].op = "reset"
         /\ log[n - 2].op = "set" /\ log[n - 2].keys = log[n].keys
         /\ log[n - 3].op = "reset") =>
            log[n].ret = get(input, log[n].keys)

====
